---- MODULE Spec2Model ----
(***************************************************************************)
(* Forge agent runtime: the context manager (token estimate, split point,  *)
(* compaction), the agent's ReAct loop, and the session manager with the   *)
(* WebSocket and REST turn handlers over the SQLite session store.         *)
(*                                                                         *)
(* Sequences are 1-based here and 0-based in the Go source; At(h, i) reads *)
(* Go index i, and every index named in a definition is a Go index.        *)
(***************************************************************************)
EXTENDS Integers, Sequences, FiniteSets, TLC

\* ------------------------------------------------------------------ bounds
\* Turns of a stored conversation drawn as input of compactHistory.
MaxSeedTurns == 3
\* Turns the interactive agent runs.
MaxTurns == 1
\* Tool calls one assistant reply may carry.
MaxCalls == 2

\* ------------------------------------------------------- program constants
defaultMaxTokens == 6000
maxSummaryChars == 4000
trimKeepLast == 10
\* len("\n... (summary truncated)")
truncMarkerLen == 24
\* len("[Prior conversation summary]\n")
summaryMarkerLen == 29

\* ------------------------------------------------------------ data model
RoleSystem == "system"
RoleUser == "user"
RoleAssistant == "assistant"
RoleTool == "tool"

\* A message content is abstracted to its kind and its length in bytes.
Text(kind, n) == [kind |-> kind, len |-> n]

Message(role, content, calls, tcid) ==
    [role |-> role, content |-> content, tool_calls |-> calls, tool_call_id |-> tcid]

\* Call ids are positive numbers; NoID stands for the empty tool_call_id.
NoID == 0

SystemMessage(content) == Message(RoleSystem, content, <<>>, NoID)
UserMessage(content) == Message(RoleUser, content, <<>>, NoID)
AssistantMessage(content) == Message(RoleAssistant, content, <<>>, NoID)
ToolResultMessage(toolCallID, content) == Message(RoleTool, content, <<>>, toolCallID)

ToolCall(id, name, argsLen) == [id |-> id, name |-> name, argsLen |-> argsLen]

\* len(tc.Name) of the tool names the model uses.
NameLen(name) ==
    CASE name = "shell_exec" -> 10
      [] name = "read_file" -> 9
      [] OTHER -> 4

At(h, i) == h[i + 1]
Slice(h, from, to) == SubSeq(h, from + 1, to)

defaultSystemPromptLen == 249
defaultSystemPrompt == Text("prompt", defaultSystemPromptLen)

\* ------------------------------------------------------- context manager
RECURSIVE callTokens(_)
callTokensFirstOnly(calls) ==
    IF calls = <<>> THEN 0
    ELSE NameLen(Head(calls).name) \div 4 + Head(calls).argsLen \div 4

callTokens(calls) ==
    IF calls = <<>> THEN 0
    ELSE NameLen(Head(calls).name) \div 4 + Head(calls).argsLen \div 4
         + callTokens(Tail(calls))

estimateTokens(m) ==
    LET tokens == m.content.len \div 4 + callTokens(m.tool_calls)
    IN  IF tokens = 0 THEN 1 ELSE tokens

RECURSIVE estimateHistoryTokens(_)
estimateHistoryTokens(messages) ==
    IF messages = <<>> THEN 0
    ELSE estimateTokens(Head(messages)) + estimateHistoryTokens(Tail(messages))

\* The backward walk of findSplitPoint: from Go index i down to 1.
RECURSIVE splitWalk(_, _, _, _)
splitWalk(messages, budget, i, tokens) ==
    IF i < 1 THEN [exceeded |-> FALSE, splitIdx |-> Len(messages)]
    ELSE LET msgTokens == estimateTokens(At(messages, i))
         IN  IF tokens + msgTokens > budget
             THEN [exceeded |-> TRUE, splitIdx |-> i + 1]
             ELSE splitWalk(messages, budget, i - 1, tokens + msgTokens)

\* The scan back to the nearest user message.
RECURSIVE splitScan(_, _)
splitScan(messages, splitIdx) ==
    IF splitIdx > 1 /\ At(messages, splitIdx).role # RoleUser
    THEN splitScan(messages, splitIdx - 1)
    ELSE splitIdx

findSplitPointUnaligned(messages, recentTokenBudget) ==
    IF Len(messages) <= 2 THEN Len(messages)
    ELSE LET w == splitWalk(messages, recentTokenBudget, Len(messages) - 1, 0)
         IN  IF ~w.exceeded THEN Len(messages)
             ELSE IF w.splitIdx >= Len(messages) THEN Len(messages) - 1
             ELSE w.splitIdx

findSplitPoint(messages, recentTokenBudget) ==
    IF Len(messages) <= 2 THEN Len(messages)
    ELSE LET w == splitWalk(messages, recentTokenBudget, Len(messages) - 1, 0)
             clamped == IF w.splitIdx >= Len(messages)
                        THEN Len(messages) - 1 ELSE w.splitIdx
             s == splitScan(messages, clamped)
         IN  IF ~w.exceeded THEN Len(messages)
             ELSE IF s <= 1 \/ At(messages, s).role # RoleUser
                  THEN Len(messages) ELSE s

\* An outcome of the summarizer's ChatCompletion: the call failed, or it
\* returned a text of rawLen bytes.
SummaryOutcomes ==
    {[ok |-> FALSE, rawLen |-> 0]} \cup {[ok |-> TRUE, rawLen |-> n] : n \in {0, 40, 4100}}

\* The text summarizeMessages returns for a successful call.
summarizeMessages(outcome) ==
    IF outcome.rawLen > maxSummaryChars
    THEN maxSummaryChars + truncMarkerLen
    ELSE outcome.rawLen

trimHistoryKeepAll(h, keepLast) == h

trimHistory(h, keepLast) ==
    IF Len(h) <= keepLast + 1 THEN h
    ELSE <<At(h, 0)>> \o Slice(h, Len(h) - keepLast, Len(h))

\* The first test of compactHistory: total <= a.maxTokens.
withinRecentBudget(total, maxTok) == total <= (maxTok * 60) \div 100

withinBudget(total, maxTok) == total <= maxTok

\* The history compactHistory rebuilds: system prompt, summary message,
\* recent messages.
rebuildHistoryKeepOld(h, splitIdx, summaryLen) ==
    <<At(h, 0), SystemMessage(Text("summary", summaryMarkerLen + summaryLen))>>
        \o Slice(h, 1, Len(h))

rebuildHistory(h, splitIdx, summaryLen) ==
    <<At(h, 0), SystemMessage(Text("summary", summaryMarkerLen + summaryLen))>>
        \o Slice(h, splitIdx, Len(h))

\* compactHistory on history h: the new history, the path taken and whether
\* the summarizer was called.
compactHistory(h, maxTok, outcome) ==
    LET total == estimateHistoryTokens(h)
        recentBudget == (maxTok * 60) \div 100
        splitIdx == findSplitPoint(h, recentBudget)
        noop == [history |-> h, path |-> "noop", called |-> FALSE]
    IN  IF withinBudget(total, maxTok) THEN noop
        ELSE IF splitIdx >= Len(h) THEN noop
        ELSE IF Slice(h, 1, splitIdx) = <<>> THEN noop
        ELSE IF ~outcome.ok
             THEN [history |-> trimHistory(h, trimKeepLast),
                   path |-> "fallback", called |-> TRUE]
             ELSE [history |-> rebuildHistory(h, splitIdx, summarizeMessages(outcome)),
                   path |-> "summary", called |-> TRUE]

\* The outcomes of the summarizer call compactHistory makes on h, if it makes
\* one.
NoSummary == [ok |-> FALSE, rawLen |-> 0]
OutcomesFor(h, maxTok) ==
    IF compactHistory(h, maxTok, NoSummary).called THEN SummaryOutcomes ELSE {NoSummary}

\* ------------------------------------------------------------------ agent
\* Tool names the LLM may request.  The registry indexes the first two; the
\* server of read_file answers every call with isError.
ToolNames == {"shell_exec", "read_file", "nope"}
RegistryIndex == {"shell_exec", "read_file"}
FailingTools == {"read_file"}

ShortPrompt == Text("prompt", 16)
NoPrompt == Text("prompt", 0)

\* Byte lengths of the texts the runs use: short and long contents, and the
\* arguments of a tool call.
Sizes == [small |-> 8, big |-> 200, args |-> 16]

\* The LLM clients an agent may be bound to.
LLMClients == {"main", "other"}

\* What a turn does to the outside, in order: the LLM calls it makes (and the
\* client each goes to), and the callbacks it fires: OnTextDelta, OnToolCall
\* and OnToolResult (with the id of the call).  The first entry records the
\* client bound when the turn began.
Event(type, id, client) == [type |-> type, id |-> id, client |-> client]

\* An Agent: its history, its limits, its LLM client, and the position of
\* Run/RunStreaming in it (at: "idle" outside a turn, "llm" before an LLM
\* call, "tools" inside the tool loop; iter is the loop index i, pending the
\* calls of the current reply not yet executed, result how the last turn
\* returned and response the text it returned, out what the turn has done to
\* the outside so far, sink who installed the callbacks OnTextDelta,
\* OnToolCall and OnToolResult, "none" while they are nil).
\* Agent.New: the history holds the default system prompt.
New(maxIterations) ==
    [history |-> <<SystemMessage(defaultSystemPrompt)>>,
     maxTokens |-> defaultMaxTokens,
     maxIter |-> maxIterations,
     tools |-> RegistryIndex,
     llm |-> "main", sink |-> "none",
     iter |-> 0, pending |-> <<>>, at |-> "idle", result |-> "none",
     response |-> Text("text", 0), out |-> <<>>]

\* Agent.SetClient.
SetClient(a, client) == [a EXCEPT !.llm = client]

\* The assignment of the three callback fields by the surface sink.
SetCallbacks(a, sink) == [a EXCEPT !.sink = sink]

\* Agent.SetSystemPrompt; the empty prompt leaves the history alone.
SetSystemPrompt(a, prompt) ==
    IF prompt.len # 0 THEN [a EXCEPT !.history[1] = SystemMessage(prompt)] ELSE a

\* Agent.FilterTools: the offered tools restricted to the given names; no
\* names, no restriction.
FilterTools(a, names) ==
    IF names = {} THEN a ELSE [a EXCEPT !.tools = a.tools \cap names]

\* Agent.SetMaxTokens.
SetMaxTokens(a, n) == IF n > 0 THEN [a EXCEPT !.maxTokens = n] ELSE a

\* Agent.SetHistory: wholesale replacement.
SetHistory(a, messages) == [a EXCEPT !.history = messages]

\* Agent.Reset: a.history[:1].
Reset(a) == [a EXCEPT !.history = SubSeq(a.history, 1, 1), !.result = "none"]

\* What the LLM client may return to one ChatCompletion(Stream) call of loop
\* iteration i: an error, a text reply, or a reply carrying tool calls whose
\* ids are unique within the turn: one call of any tool name, or 2..MaxCalls
\* calls of shell_exec.  A call under a cancelled context returns an error.
CallSeqs(i) ==
    {<<ToolCall(10 * (i + 1) + 1, name, Sizes.args)>> : name \in ToolNames}
    \cup {[j \in 1..k |-> ToolCall(10 * (i + 1) + j, "shell_exec", Sizes.args)] :
             k \in 2..MaxCalls}

\* deltas: the text deltas the stream carried before it ended.
LLMError == [kind |-> "error", message |-> AssistantMessage(Text("text", 0)), deltas |-> 0]

\* A stream that fails, or is cancelled, after a delta of the reply arrived.
LLMAborted ==
    [kind |-> "error", message |-> AssistantMessage(Text("text", Sizes.small)), deltas |-> 1]

LLMRepliesOver(calls, cancelled) ==
    {LLMError}
    \cup (IF cancelled THEN {}
          ELSE {[kind |-> "reply", message |-> AssistantMessage(Text("text", Sizes.small)),
                 deltas |-> 1]}
               \cup {[kind |-> "reply",
                      message |-> Message(RoleAssistant, Text("text", 0), cs, NoID),
                      deltas |-> 0] :
                         cs \in calls})

LLMReplies(i, cancelled) == LLMRepliesOver(CallSeqs(i), cancelled) \cup {LLMAborted}

\* Agent.executeTool: the observation text of the call.  A call the registry
\* does not index yields the unknown-tool error text; an indexed one yields
\* an error text when the context is cancelled (the connection-level call
\* fails) or the tool reports isError, and its result otherwise.
executeToolUnprefixed(tc, cancelled) ==
    IF tc.name \notin RegistryIndex THEN Text("result", 24)
    ELSE IF cancelled \/ tc.name \in FailingTools THEN Text("error", 40)
    ELSE Text("result", Sizes.small)

executeTool(tc, cancelled) ==
    IF tc.name \notin RegistryIndex THEN Text("error", 24)
    ELSE IF cancelled \/ tc.name \in FailingTools THEN Text("error", 40)
    ELSE Text("result", Sizes.small)

\* The append after one executed tool call.
AppendToolResultDropErrors(h, tc, result) ==
    IF result.kind = "error" THEN h ELSE Append(h, ToolResultMessage(tc.id, result))

AppendToolResult(h, tc, result) == Append(h, ToolResultMessage(tc.id, result))

\* Run / RunStreaming up to the first LLM call: compactHistory (summarizer
\* outcome o), then the user message is appended.
runBegin(a, content, o) ==
    LET h == Append(compactHistory(a.history, a.maxTokens, o).history,
                    UserMessage(content))
        b == [a EXCEPT !.history = h, !.iter = 0, !.pending = <<>>,
                       !.response = Text("text", 0),
                       !.out = <<Event("begin", 0, a.llm)>>]
    IN  IF a.maxIter > 0
        THEN [b EXCEPT !.at = "llm", !.result = "none"]
        ELSE [b EXCEPT !.at = "idle", !.result = "iter_limit"]

\* One LLM call of the loop, sent to client, with the given reply, and the
\* append of it.  A streaming call hands the deltas to OnTextDelta as they
\* arrive; a call that fails returns no message.
llmStep(a, reply, streaming, client) ==
    LET out == a.out \o <<Event("llm", a.iter, client)>>
                     \o (IF streaming /\ reply.deltas > 0 /\ a.sink # "none"
                         THEN <<Event("delta", a.iter, "")>> ELSE <<>>)
    IN  IF reply.kind = "error"
        THEN [a EXCEPT !.at = "idle", !.result = "llm_error", !.out = out]
        ELSE IF reply.message.tool_calls = <<>>
             THEN [a EXCEPT !.history = Append(a.history, reply.message),
                            !.at = "idle", !.result = "ok",
                            !.response = reply.message.content, !.out = out]
             ELSE [a EXCEPT !.history = Append(a.history, reply.message),
                            !.pending = reply.message.tool_calls, !.at = "tools",
                            !.out = out]

\* The callbacks around one executeTool: OnToolCall before it, OnToolResult
\* after it, each if it is not nil.  (toolEventsResultFirst: the two swapped.)
toolEventsResultFirst(a, tc) ==
    IF a.sink = "none" THEN <<>>
    ELSE <<Event("tool_result", tc.id, ""), Event("tool_call", tc.id, "")>>

toolEvents(a, tc) ==
    IF a.sink = "none" THEN <<>>
    ELSE <<Event("tool_call", tc.id, ""), Event("tool_result", tc.id, "")>>

\* One pass of the tool loop: OnToolCall, executeTool on the next call,
\* OnToolResult and the append of the result; after the last call the loop
\* index advances and the loop either goes back to the LLM or ends with the
\* iteration-limit error.  (toolStepOneMore: the loop test i <= maxIter.)
toolStepOneMore(a, cancelled) ==
    LET tc == Head(a.pending)
        h == AppendToolResult(a.history, tc, executeTool(tc, cancelled))
        out == a.out \o toolEvents(a, tc)
    IN  IF Tail(a.pending) # <<>>
        THEN [a EXCEPT !.history = h, !.pending = Tail(a.pending), !.out = out]
        ELSE IF a.iter + 1 <= a.maxIter
             THEN [a EXCEPT !.history = h, !.pending = <<>>, !.iter = a.iter + 1,
                            !.at = "llm", !.out = out]
             ELSE [a EXCEPT !.history = h, !.pending = <<>>, !.iter = a.iter + 1,
                            !.at = "idle", !.result = "iter_limit", !.out = out]

toolStep(a, cancelled) ==
    LET tc == Head(a.pending)
        h == AppendToolResult(a.history, tc, executeTool(tc, cancelled))
        out == a.out \o toolEvents(a, tc)
    IN  IF Tail(a.pending) # <<>>
        THEN [a EXCEPT !.history = h, !.pending = Tail(a.pending), !.out = out]
        ELSE IF a.iter + 1 < a.maxIter
             THEN [a EXCEPT !.history = h, !.pending = <<>>, !.iter = a.iter + 1,
                            !.at = "llm", !.out = out]
             ELSE [a EXCEPT !.history = h, !.pending = <<>>, !.iter = a.iter + 1,
                            !.at = "idle", !.result = "iter_limit", !.out = out]

\* ---------------------------------------------------------- session store
SessionIDs == {"s1"}

StatusActive == "active"
StatusRunning == "running"
StatusCompleted == "completed"
StatusFailed == "failed"

\* A row of the sessions table and a row of session_messages.
NoSession == [present |-> FALSE, title |-> 0, status |-> StatusActive]
NoRow == [present |-> FALSE, messages |-> <<>>]

\* CreateSession: the session row, then the message row holding '[]'.
CreateSessionRow(sess) == [present |-> TRUE, title |-> sess.title, status |-> sess.status]
EmptyRow == [present |-> TRUE, messages |-> <<>>]

\* UpdateSession: title and status of the row with the id, if there is one.
\* It fails under a cancelled context.
UpdateSession(sessions, ctxDone, sess) ==
    IF ctxDone \/ ~sessions[sess.id].present THEN sessions
    ELSE [sessions EXCEPT ![sess.id].title = sess.title, ![sess.id].status = sess.status]

\* SaveMessages: the upsert of the whole list.  It fails under a cancelled
\* context (ExecContext returns the context's error before any write), and
\* when it has to insert a row for a session that no longer exists on a
\* connection that enforces foreign keys (fk).
SaveFails(sessions, rows, ctxDone, id, fk) ==
    ctxDone \/ (fk /\ ~rows[id].present /\ ~sessions[id].present)

\* json.Marshal of a string: bytes that are not valid UTF-8 are replaced by
\* U+FFFD, three bytes for each.  The kind "cut" is a text with one such
\* byte, as toolShellExec leaves it; the other kinds are valid UTF-8.
jsonString(content) ==
    IF content.kind = "cut" THEN Text("replaced", content.len + 2) ELSE content

\* json.Marshal of the list, and json.Unmarshal of the stored text (which
\* decodes what the text holds).
jsonMarshal(messages) ==
    [i \in 1..Len(messages) |-> [messages[i] EXCEPT !.content = jsonString(@)]]
jsonUnmarshal(data) == data

SaveMessages(sessions, rows, ctxDone, id, messages, fk) ==
    IF SaveFails(sessions, rows, ctxDone, id, fk) THEN rows
    ELSE [rows EXCEPT ![id] = [present |-> TRUE, messages |-> jsonMarshal(messages)]]

\* Whether the connection a statement on the rows of id runs on enforces
\* foreign keys: the pragma is set on the connection that ran the
\* migrations, not on those the pool opens later.  It matters when a message
\* row stands without its session row, or is written without it.
ForeignKeys(sessions, id) ==
    IF sessions[id].present THEN {TRUE} ELSE BOOLEAN

\* LoadMessages: the decoded list, or no messages when no row exists.
LoadMessages(rows, id) ==
    IF rows[id].present THEN jsonUnmarshal(rows[id].messages) ELSE <<>>

\* The SQL operator LIKE on a pattern and a text, both lists of characters:
\* % matches any run of characters, _ any one character, and a letter
\* matches itself in either case.
lower(ch) == IF ch = "A" THEN "a" ELSE IF ch = "B" THEN "b" ELSE ch

RECURSIVE like(_, _)
like(pattern, text) ==
    IF pattern = <<>> THEN text = <<>>
    ELSE IF Head(pattern) = "%"
         THEN \E k \in 0..Len(text) : like(Tail(pattern), SubSeq(text, k + 1, Len(text)))
    ELSE IF Head(pattern) = "_"
         THEN text # <<>> /\ like(Tail(pattern), Tail(text))
    ELSE /\ text # <<>>
         /\ lower(Head(pattern)) = lower(Head(text))
         /\ like(Tail(pattern), Tail(text))

\* getSessionExact: WHERE id = ?.
getSessionExact(sessions, id) == id \in DOMAIN sessions /\ sessions[id].present

\* The rows of the prefix query: WHERE id LIKE ? || '%'.
prefixMatches(sessions, p) ==
    {id \in DOMAIN sessions : sessions[id].present /\ like(p \o <<"%">>, id)}

\* SQLiteStore.GetSession: the exact match, else the only row of the prefix
\* query; err tells what it returns without a session.
Found(id) == [err |-> "none", id |-> id]
NotFound == [err |-> "not_found", id |-> <<>>]
AmbiguousPrefix == [err |-> "ambiguous", id |-> <<>>]

storeGetSession(sessions, p) ==
    IF getSessionExact(sessions, p) THEN Found(p)
    ELSE LET matches == prefixMatches(sessions, p)
         IN  IF matches = {} THEN NotFound
             ELSE IF Cardinality(matches) = 1 THEN Found(CHOOSE id \in matches : TRUE)
             ELSE AmbiguousPrefix

\* generateTitle: the length of the title derived from the first message
\* (the message, cut to 80 bytes plus an ellipsis).
generateTitle(content) == IF content.len > 80 THEN 83 ELSE content.len

\* ------------------------------------------------------------------ state
\* --------------------------------------------------------- tool registry
\* The tool servers of the configuration, and what a launch of a server may
\* come to: an error (binary missing, initialize or tools/list failing) or a
\* connection with the tool names the server lists.  Two servers may list
\* one name.
Servers == {"shell", "files"}
LaunchFailed == [ok |-> FALSE, tools |-> {}]
Launched(tools) == [ok |-> TRUE, tools |-> tools]
Launches ==
    {LaunchFailed, Launched({}), Launched({"shell_exec"}),
     Launched({"shell_exec", "read_file"})}

\* An MCPConnection: the tools it discovered, and whether it was closed.
NoConnection == [present |-> FALSE, tools |-> {}, closed |-> FALSE]
MCPConnection(launch) == [present |-> TRUE, tools |-> launch.tools, closed |-> FALSE]

\* What the last call on the registry was and returned.
RegistryCall(op, name, enabled, launch, err) ==
    [op |-> op, name |-> name, enabled |-> enabled, launch |-> launch, err |-> err]

\* NewRegistry: two empty maps ("none": no entry for the tool name).
NewRegistry ==
    [connections |-> [n \in Servers |-> NoConnection],
     toolIndex |-> [t \in ToolNames |-> "none"],
     last |-> RegistryCall("none", "none", FALSE, LaunchFailed, "none")]

\* The loop of Register over conn.ToolNames(): r.toolIndex[toolName] = name.
indexToolsFirstWins(index, tools, name) ==
    [t \in ToolNames |-> IF t \in tools /\ index[t] = "none" THEN name ELSE index[t]]

indexTools(index, tools, name) ==
    [t \in ToolNames |-> IF t \in tools THEN name ELSE index[t]]

\* Register(name, cfg) with what the launch of cfg.Binary comes to.
Register(r, name, enabled, launch) ==
    IF ~enabled
    THEN [r EXCEPT !.last = RegistryCall("register", name, enabled, launch, "none")]
    ELSE IF ~launch.ok
    THEN [r EXCEPT !.last = RegistryCall("register", name, enabled, launch, "launch")]
    ELSE [connections |-> [r.connections EXCEPT ![name] = MCPConnection(launch)],
          toolIndex |-> indexTools(r.toolIndex, launch.tools, name),
          last |-> RegistryCall("register", name, enabled, launch, "none")]

\* HasTools: len(r.toolIndex) > 0.
HasTools(r) == \E t \in ToolNames : r.toolIndex[t] # "none"

\* CallTool(name): the error of an unknown tool, or the call on the
\* connection of the indexed server.
CallTool(r, tool) ==
    [r EXCEPT !.last = RegistryCall("call", tool, FALSE, LaunchFailed,
                                    IF r.toolIndex[tool] = "none" THEN "unknown"
                                    ELSE "none")]

\* Close: conn.Close() on every connection; the maps keep their entries.
Close(r) ==
    [r EXCEPT !.connections = [n \in Servers |->
                                  IF r.connections[n].present
                                  THEN [r.connections[n] EXCEPT !.closed = TRUE]
                                  ELSE r.connections[n]],
              !.last = RegistryCall("close", "none", FALSE, LaunchFailed, "none")]

VARIABLES
    agent,          \* the Agent of the interactive chat (or under compaction)
    pc,             \* position of the chat process
    ctxCancelled,   \* the chat turn's context is cancelled
    chat,           \* locals of runChat: sess and firstMessage
    sessRows,       \* sessions table
    msgRows,        \* session_messages table
    sm,             \* SessionManager.sessions: id -> ActiveSession (0: none)
    objs,           \* the ActiveSession objects constructed so far
    clients,        \* the HTTP / WebSocket handlers and their clients
    delPc,          \* position of the DELETE handler
    srvPc,          \* position of Server.Shutdown
    epoch,          \* observer: Remove / CloseAll calls so far
    \* Observers of the agent's behaviour (no counterpart in the code).
    turns,          \* turns started so far
    turnStart,      \* Go index of the user message of the current turn
    llmAfterCancel, \* LLM calls begun after the context was cancelled
    toolAfterCancel,\* executeTool calls begun after the context was cancelled
    preHistory,     \* history before the last compactHistory
    compactPath,    \* path the last compactHistory took
    call,           \* the ChatCompletion(Stream) call of the LLM client under way
    storeOp,        \* the last call of a caller of the Store, and what it returned
    registry        \* the tool Registry and the last call made on it

observers == <<turns, turnStart, llmAfterCancel, toolAfterCancel, preHistory, compactPath>>
storeVars == <<sessRows, msgRows>>
chatVars == <<agent, pc, ctxCancelled, chat>>
serverVars == <<sm, objs, clients, delPc, srvPc, epoch>>

vars == <<chatVars, storeVars, serverVars, observers, call, storeOp, registry>>

\* No call of the Store is followed.
NoStoreOp == [op |-> "none"]

\* No call of the LLM client is followed.
NoCall == [state |-> "none"]

NoChat == [id |-> "", title |-> 0, status |-> StatusActive, firstMessage |-> FALSE]

\* The server is not running.
ServerOff ==
    /\ sm = [id \in SessionIDs |-> 0]
    /\ objs = <<>>
    /\ clients = <<>>
    /\ delPc = "off"
    /\ srvPc = "off"
    /\ epoch = 0

\* The chat is not running.
ChatOff ==
    /\ pc = "off"
    /\ ctxCancelled = FALSE
    /\ chat = NoChat
    /\ turns = 0
    /\ turnStart = 0
    /\ llmAfterCancel = 0
    /\ toolAfterCancel = 0

\* --------------------------------------------- inputs of the compaction run
SeedShapes == {"text", "call1", "call2", "failed_after_tools", "failed_first"}

\* The messages one turn of Run leaves in the history: turn k of the given
\* shape, its replies and results small or big.
SeedTurn(shape, big, k) ==
    LET n == IF big THEN Sizes.big ELSE Sizes.small
        u == UserMessage(Text("text", Sizes.small))
        c1 == ToolCall(10 * k + 1, "shell_exec", Sizes.args)
        c2 == ToolCall(10 * k + 2, "shell_exec", Sizes.args)
        a1 == Message(RoleAssistant, Text("text", 0), <<c1>>, NoID)
        a2 == Message(RoleAssistant, Text("text", 0), <<c1, c2>>, NoID)
        t1 == ToolResultMessage(c1.id, Text("result", n))
        t2 == ToolResultMessage(c2.id, Text("result", n))
        fin == AssistantMessage(Text("text", n))
    IN  CASE shape = "text" -> <<u, fin>>
          [] shape = "call1" -> <<u, a1, t1, fin>>
          [] shape = "call2" -> <<u, a2, t1, t2, fin>>
          [] shape = "failed_after_tools" -> <<u, a1, t1>>
          [] OTHER -> <<u>>

RECURSIVE SeedConcat(_, _)
SeedConcat(ts, k) ==
    IF k > Len(ts) THEN <<>>
    ELSE SeedTurn(ts[k][1], ts[k][2], k) \o SeedConcat(ts, k + 1)

SeedTurnSeqs == UNION {[1..k -> SeedShapes \X BOOLEAN] : k \in 0..MaxSeedTurns}

SeedPrefixes ==
    {<<SystemMessage(ShortPrompt)>>,
     <<SystemMessage(NoPrompt)>>,
     <<SystemMessage(ShortPrompt), SystemMessage(Text("summary", summaryMarkerLen + 40))>>}

SeedHistories == {p \o SeedConcat(ts, 1) : p \in SeedPrefixes, ts \in SeedTurnSeqs}

SeedMaxTokens == {10, 50, 120}

\* ------------------------------------------------ compaction specification
\* An agent whose history is one a sequence of earlier turns leaves behind.
InitCompact ==
    /\ \E h \in SeedHistories, n \in SeedMaxTokens :
         agent = SetMaxTokens(SetHistory(New(1), h), n)
    /\ pc = "seeded"
    /\ ctxCancelled = FALSE
    /\ chat = NoChat
    /\ sessRows = [id \in SessionIDs |-> NoSession]
    /\ msgRows = [id \in SessionIDs |-> NoRow]
    /\ ServerOff
    /\ turns = 0
    /\ turnStart = 0
    /\ llmAfterCancel = 0
    /\ toolAfterCancel = 0
    /\ preHistory = <<>>
    /\ compactPath = "none"
    /\ call = NoCall
    /\ storeOp = NoStoreOp
    /\ registry = NewRegistry

\* a.compactHistory(ctx), the summarizer answering with outcome o.
CompactHistory ==
    /\ pc = "seeded"
    /\ \E o \in SummaryOutcomes :
         LET r == compactHistory(agent.history, agent.maxTokens, o)
         IN  /\ agent' = [agent EXCEPT !.history = r.history]
             /\ compactPath' = r.path
    /\ preHistory' = agent.history
    /\ pc' = "compacted"
    /\ UNCHANGED <<ctxCancelled, chat, storeVars, serverVars,
                   turns, turnStart, llmAfterCancel, toolAfterCancel>>
    /\ UNCHANGED <<call, storeOp, registry>>

NextCompact == CompactHistory

SpecCompact == InitCompact /\ [][NextCompact]_vars

\* ------------------------------------------------------------ agent (chat)
\* What the configuration and the profile give the chat: no profile, or one
\* with its own prompt, tool list and iteration limit.
NoProfile == [prompt |-> NoPrompt, tools |-> {}, maxIter |-> 0]
Profiles ==
    {NoProfile,
     [prompt |-> ShortPrompt, tools |-> {"shell_exec"}, maxIter |-> 2],
     [prompt |-> NoPrompt, tools |-> {"read_file"}, maxIter |-> 0]}
ChatConfig == [maxIterations |-> 1, contextMaxTokens |-> 40]

\* The agent initialization shared by runChat and GetOrCreate: New,
\* SetMaxTokens, and the profile's overrides.
NewAgent(cfg, profile) ==
    LET maxIter == IF profile.maxIter > 0 THEN profile.maxIter ELSE cfg.maxIterations
    IN  FilterTools(SetSystemPrompt(SetMaxTokens(New(maxIter), cfg.contextMaxTokens),
                                    profile.prompt),
                    profile.tools)

UserInput == Text("text", Sizes.small)

\* Positions of a chat process that is not running: never started, exited
\* from the prompt, ended by a panic.
Stopped == {"down", "exited", "crashed"}

InitAgent ==
    /\ agent = New(ChatConfig.maxIterations)
    /\ pc = "down"
    /\ ctxCancelled = FALSE
    /\ chat = NoChat
    /\ sessRows = [id \in SessionIDs |-> NoSession]
    /\ msgRows = [id \in SessionIDs |-> NoRow]
    /\ ServerOff
    /\ turns = 0
    /\ turnStart = 0
    /\ llmAfterCancel = 0
    /\ toolAfterCancel = 0
    /\ preHistory = <<>>
    /\ compactPath = "none"
    /\ call = NoCall
    /\ storeOp = NoStoreOp
    /\ registry = NewRegistry

\* runChat without --resume: a new agent and a new session.
ChatStartNew ==
    /\ pc \in Stopped
    /\ \E id \in SessionIDs, profile \in Profiles :
         /\ ~sessRows[id].present
         /\ agent' = SetCallbacks(NewAgent(ChatConfig, profile), "chat")
         /\ chat' = [id |-> id, title |-> 0, status |-> StatusActive,
                     firstMessage |-> TRUE]
         /\ sessRows' = [sessRows EXCEPT ![id] = CreateSessionRow(chat')]
         /\ msgRows' = [msgRows EXCEPT ![id] = EmptyRow]
    /\ pc' = "idle"
    /\ ctxCancelled' = FALSE
    /\ turnStart' = 0
    /\ llmAfterCancel' = 0
    /\ toolAfterCancel' = 0
    /\ preHistory' = <<>>
    /\ compactPath' = "none"
    /\ UNCHANGED <<serverVars, turns>>
    /\ UNCHANGED <<call, storeOp, registry>>

\* runChat --resume id: a new agent whose history is replaced by the stored
\* list of the session, which is marked active again.
ChatStartResume ==
    /\ pc \in Stopped
    /\ \E id \in SessionIDs, profile \in Profiles :
         /\ sessRows[id].present
         /\ agent' = SetCallbacks(SetHistory(NewAgent(ChatConfig, profile),
                                             LoadMessages(msgRows, id)), "chat")
         /\ chat' = [id |-> id, title |-> sessRows[id].title, status |-> StatusActive,
                     firstMessage |-> FALSE]
         /\ sessRows' = UpdateSession(sessRows, FALSE, chat')
    /\ pc' = "idle"
    /\ ctxCancelled' = FALSE
    /\ turnStart' = 0
    /\ llmAfterCancel' = 0
    /\ toolAfterCancel' = 0
    /\ preHistory' = <<>>
    /\ compactPath' = "none"
    /\ UNCHANGED <<msgRows, serverVars, turns>>
    /\ UNCHANGED <<call, storeOp, registry>>

\* The /reset command: Agent.Reset.  On an empty history it panics: the
\* deferred functions of runChat run and the process ends.
ChatReset ==
    /\ pc = "idle"
    /\ IF Len(agent.history) >= 1
       THEN /\ agent' = Reset(agent)
            /\ pc' = "idle"
            /\ UNCHANGED <<chat, sessRows>>
       ELSE /\ agent' = agent
            /\ pc' = "crashed"
            /\ chat' = [chat EXCEPT !.status = StatusCompleted]
            /\ sessRows' = UpdateSession(sessRows, FALSE, chat')
    /\ UNCHANGED <<ctxCancelled, msgRows, serverVars, observers>>
    /\ UNCHANGED <<call, storeOp, registry>>

\* The /model command with a provider the configuration knows: SetClient
\* with a new client, and the session row rewritten from runChat's copy.
ChatModel ==
    /\ pc = "idle"
    /\ \E client \in LLMClients \ {agent.llm} : agent' = SetClient(agent, client)
    /\ sessRows' = UpdateSession(sessRows, FALSE, chat)
    /\ UNCHANGED <<pc, ctxCancelled, chat, msgRows, serverVars, observers>>
    /\ UNCHANGED <<call, storeOp, registry>>

\* End of input or interrupt at the prompt: runChat returns and its deferred
\* function marks the session completed.
ChatQuit ==
    /\ pc = "idle"
    /\ pc' = "exited"
    /\ chat' = [chat EXCEPT !.status = StatusCompleted]
    /\ sessRows' = UpdateSession(sessRows, FALSE, chat')
    /\ UNCHANGED <<agent, ctxCancelled, msgRows, serverVars, observers>>
    /\ UNCHANGED <<call, storeOp, registry>>

\* The /quit, /exit or /q command: os.Exit(0); no deferred function runs.
ChatSlashQuit ==
    /\ pc = "idle"
    /\ pc' = "exited"
    /\ UNCHANGED <<agent, ctxCancelled, chat, storeVars, serverVars, observers>>
    /\ UNCHANGED <<call, storeOp, registry>>

\* After a step of RunStreaming that left the agent as a: if RunStreaming
\* has returned, runChat saves the history and prompts again.
ChatAfterStep(a) ==
    /\ agent' = a
    /\ IF a.at = "idle"
       THEN /\ msgRows' = SaveMessages(sessRows, msgRows, FALSE, chat.id, a.history, TRUE)
            /\ pc' = "idle"
       ELSE /\ msgRows' = msgRows
            /\ pc' = "turn"

\* A line of input: the title on the first message, then RunStreaming up to
\* its first LLM call.
RunBegin ==
    /\ pc = "idle"
    /\ turns < MaxTurns
    /\ \E o \in OutcomesFor(agent.history, agent.maxTokens) :
         /\ compactPath' = compactHistory(agent.history, agent.maxTokens, o).path
         /\ turnStart' = Len(compactHistory(agent.history, agent.maxTokens, o).history)
         /\ ChatAfterStep(runBegin(agent, UserInput, o))
    /\ IF chat.firstMessage
       THEN /\ chat' = [chat EXCEPT !.title = generateTitle(UserInput),
                                    !.firstMessage = FALSE]
            /\ sessRows' = UpdateSession(sessRows, FALSE, chat')
       ELSE UNCHANGED <<chat, sessRows>>
    /\ preHistory' = agent.history
    /\ turns' = turns + 1
    /\ ctxCancelled' = FALSE
    /\ llmAfterCancel' = 0
    /\ toolAfterCancel' = 0
    /\ UNCHANGED serverVars
    /\ UNCHANGED <<call, storeOp, registry>>

\* One ChatCompletionStream call of the loop and the append of its reply.
LLMStep ==
    /\ pc = "turn"
    /\ agent.at = "llm"
    /\ llmAfterCancel' = IF ctxCancelled THEN llmAfterCancel + 1 ELSE llmAfterCancel
    /\ \E r \in LLMReplies(agent.iter, ctxCancelled) :
         ChatAfterStep(llmStep(agent, r, TRUE, agent.llm))
    /\ UNCHANGED <<ctxCancelled, chat, sessRows, serverVars, turns, turnStart,
                   toolAfterCancel, preHistory, compactPath>>
    /\ UNCHANGED <<call, storeOp, registry>>

\* One pass of the tool loop.
ToolStep ==
    /\ pc = "turn"
    /\ agent.at = "tools"
    /\ toolAfterCancel' = IF ctxCancelled THEN toolAfterCancel + 1 ELSE toolAfterCancel
    /\ ChatAfterStep(toolStep(agent, ctxCancelled))
    /\ UNCHANGED <<ctxCancelled, chat, sessRows, serverVars, turns, turnStart,
                   llmAfterCancel, preHistory, compactPath>>
    /\ UNCHANGED <<call, storeOp, registry>>

\* SIGINT or SIGTERM while a turn runs: reqCancel().
Cancel ==
    /\ pc = "turn"
    /\ ~ctxCancelled
    /\ ctxCancelled' = TRUE
    /\ UNCHANGED <<agent, pc, chat, storeVars, serverVars, observers>>
    /\ UNCHANGED <<call, storeOp, registry>>

NextAgent ==
    \/ ChatStartNew
    \/ ChatStartResume
    \/ ChatReset
    \/ ChatModel
    \/ ChatQuit
    \/ ChatSlashQuit
    \/ RunBegin
    \/ LLMStep
    \/ ToolStep
    \/ Cancel

SpecAgent == InitAgent /\ [][NextAgent]_vars

\* ------------------------------------------------- agent (callers of the API)
\* A program that holds an Agent and calls Run on one goroutine and
\* SetClient on another: Run and SetClient take no lock.
SwapConfig == [maxIterations |-> 2]

InitSwap ==
    /\ agent = New(SwapConfig.maxIterations)
    /\ pc = "idle"
    /\ ctxCancelled = FALSE
    /\ chat = NoChat
    /\ sessRows = [id \in SessionIDs |-> NoSession]
    /\ msgRows = [id \in SessionIDs |-> NoRow]
    /\ ServerOff
    /\ turns = 0
    /\ turnStart = 0
    /\ llmAfterCancel = 0
    /\ toolAfterCancel = 0
    /\ preHistory = <<>>
    /\ compactPath = "none"
    /\ call = NoCall
    /\ storeOp = NoStoreOp
    /\ registry = NewRegistry

SwapAfterStep(a) ==
    /\ agent' = a
    /\ pc' = IF a.at = "idle" THEN "idle" ELSE "turn"

\* Run up to its first LLM call.
SwapRunBegin ==
    /\ pc = "idle"
    /\ turns < MaxTurns
    /\ \E o \in OutcomesFor(agent.history, agent.maxTokens) :
         /\ compactPath' = compactHistory(agent.history, agent.maxTokens, o).path
         /\ turnStart' = Len(compactHistory(agent.history, agent.maxTokens, o).history)
         /\ SwapAfterStep(runBegin(agent, UserInput, o))
    /\ preHistory' = agent.history
    /\ turns' = turns + 1
    /\ UNCHANGED <<ctxCancelled, chat, storeVars, serverVars, llmAfterCancel,
                   toolAfterCancel>>
    /\ UNCHANGED <<call, storeOp, registry>>

\* One a.llm.ChatCompletion call of the loop.  The loop reads the field
\* a.llm anew on every iteration; a read that races with the write of
\* SetClient yields the old or the new client.
SwapLLMStep ==
    /\ pc = "turn"
    /\ agent.at = "llm"
    /\ \E r \in LLMReplies(agent.iter, FALSE), client \in {agent.llm, agent.out[1].client} :
         SwapAfterStep(llmStep(agent, r, FALSE, client))
    /\ UNCHANGED <<ctxCancelled, chat, storeVars, serverVars, observers>>
    /\ UNCHANGED <<call, storeOp, registry>>

SwapToolStep ==
    /\ pc = "turn"
    /\ agent.at = "tools"
    /\ SwapAfterStep(toolStep(agent, FALSE))
    /\ UNCHANGED <<ctxCancelled, chat, storeVars, serverVars, observers>>
    /\ UNCHANGED <<call, storeOp, registry>>

\* SetClient from the other goroutine, in or between turns.
SwapSetClient ==
    /\ \E client \in LLMClients \ {agent.llm} : agent' = SetClient(agent, client)
    /\ UNCHANGED <<pc, ctxCancelled, chat, storeVars, serverVars, observers>>
    /\ UNCHANGED <<call, storeOp, registry>>

NextSwap ==
    \/ SwapRunBegin
    \/ SwapLLMStep
    \/ SwapToolStep
    \/ SwapSetClient

SpecSwap == InitSwap /\ [][NextSwap]_vars

\* Every LLM call and every tool call of a running turn returns: the loop of
\* Run is straight-line code between the calls.
SpecSwapLive == SpecSwap /\ WF_vars(SwapLLMStep) /\ WF_vars(SwapToolStep)

\* ----------------------------------------------------------------- server
\* One WebSocket connection and one REST request, both for session s1.
Clients == {"ws", "rest"}
ServedSession == "s1"
ServerConfig == [maxIterations |-> 1, contextMaxTokens |-> 4000]

\* The replies the LLM gives the server's turns: an error, a text, or one
\* call of shell_exec.
ServerReplies(i, cancelled) ==
    LLMRepliesOver({<<ToolCall(10 * (i + 1) + 1, "shell_exec", Sizes.args)>>}, cancelled)

\* A handler and its client.  pc: "new" before GetSession, "got" before
\* GetOrCreate, "open" holding an ActiveSession outside a turn, "turn"
\* between the lock and the unlock of its mutex, "done" returned.  sess is
\* the handler's copy of the session, as the index of its ActiveSession,
\* gone whether the client has disconnected, cancelled whether the cancel
\* function of its turn has been called, sent the turns it has started.
\* The other fields are observers: the epoch at which GetOrCreate returned,
\* and of the last turn: where it started, whether the client disconnected
\* during it, whether it ended with the context cancelled, whether the
\* stored list equalled the history when it ended, and what it appended;
\* whether Run / RunStreaming returned an error, whether SaveMessages did,
\* and what the handler then reported.  conn is what has been written to the
\* client's connection or response, cancelledCall whether an LLM call of the
\* turn was made under the cancelled context, overlapped whether a frame was
\* written to the connection while the read loop was writing one ("replying":
\* the read loop is inside wsWriteJSON for an invalid message).
NewClient ==
    [pc |-> "new", sess |-> NoChat, as |-> 0, gone |-> FALSE, cancelled |-> FALSE,
     sent |-> 0, epoch |-> 0, start |-> 0, goneInTurn |-> FALSE,
     endedCancelled |-> FALSE, synced |-> FALSE, block |-> <<>>,
     failed |-> FALSE, saveFailed |-> FALSE, outcome |-> "none", conn |-> <<>>,
     cancelledCall |-> FALSE, overlapped |-> FALSE]

\* One write to a connection: its type, the call id of a tool event, and the
\* turn that caused it (the n-th turn of the handler of c).
Written(type, id, c, n) == [type |-> type, id |-> id, by |-> c, n |-> n]

\* The events the callbacks receive.
SinkEvents == {"delta", "tool_call", "tool_result"}

\* The callback events a step of the turn of c fired, the step having taken
\* the agent from a to b, as the callbacks write them: the callbacks
\* processWebSocketMessage installs write to the connection of that handler.
wsCallbacks(cl, c, a, b) ==
    LET IsSinkEvent(e) == e.type \in SinkEvents
        fired == SelectSeq(SubSeq(b.out, Len(a.out) + 1, Len(b.out)), IsSinkEvent)
    IN  IF b.sink \in Clients
        THEN [cl EXCEPT ![b.sink].conn =
                 @ \o [k \in 1..Len(fired) |->
                          Written(fired[k].type, fired[k].id, c, cl[c].sent)],
                        ![b.sink].overlapped =
                            @ \/ (Len(fired) > 0 /\ cl[b.sink].pc = "replying")]
        ELSE cl

\* What processWebSocketMessage writes last: done with the response, or an
\* error whose content is "interrupted" when the turn's context is done.
wsOutcome(failed, cancelled) ==
    IF failed THEN (IF cancelled THEN "interrupted" ELSE "error") ELSE "done"

\* What handleSendMessage responds: 500 "saving messages", 500 "agent
\* error", or 200 with the response.
restOutcome(failed, saveFailed) ==
    IF saveFailed THEN "saving_error" ELSE IF failed THEN "agent_error" ELSE "ok"

\* r.Context() of the handler of c is done: net/http cancels it when the
\* client of a request goes away; a hijacked connection is not watched.
reqDone(c) == c = "rest" /\ clients[c].gone

\* The context the turn of c runs under is done: context.WithCancel of
\* r.Context() on the REST path, of context.Background() on the WebSocket.
ctxDone(c) == clients[c].cancelled \/ reqDone(c)

\* The context the handler of c passes to the store around a turn.
storeCtxDone(c) == reqDone(c)

\* sm.sessions[id], 0 when the map has no entry.
smLookupMiss(m, id) == 0

smLookup(m, id) == m[id]

InitServer ==
    /\ agent = New(ChatConfig.maxIterations)
    /\ ChatOff
    /\ preHistory = <<>>
    /\ compactPath = "none"
    /\ sessRows = [id \in SessionIDs |->
                     IF id = ServedSession
                     THEN [present |-> TRUE, title |-> 0, status |-> StatusActive]
                     ELSE NoSession]
    /\ msgRows = [id \in SessionIDs |-> IF id = ServedSession THEN EmptyRow ELSE NoRow]
    /\ sm = [id \in SessionIDs |-> 0]
    /\ objs = <<>>
    /\ clients = [c \in Clients |-> NewClient]
    /\ delPc = "idle"
    /\ srvPc = "up"
    /\ epoch = 0
    /\ call = NoCall
    /\ storeOp = NoStoreOp
    /\ registry = NewRegistry

\* handleSendMessage / handleWebSocket up to GetSession.
GetSession(c) ==
    /\ srvPc = "up"
    /\ clients[c].pc = "new"
    /\ IF ~clients[c].gone /\ sessRows[ServedSession].present
       THEN clients' = [clients EXCEPT
                ![c].pc = "got",
                ![c].sess = [id |-> ServedSession,
                             title |-> sessRows[ServedSession].title,
                             status |-> sessRows[ServedSession].status,
                             firstMessage |-> FALSE]]
       ELSE clients' = [clients EXCEPT ![c].pc = "done"]
    /\ UNCHANGED <<chatVars, storeVars, sm, objs, delPc, srvPc, epoch, observers>>
    /\ UNCHANGED <<call, storeOp, registry>>

\* SessionManager.GetOrCreate, under sm.mu: the entry of the map, or a new
\* ActiveSession whose agent resumes the stored list if it is not empty.
GetOrCreate(c) ==
    /\ srvPc # "down"
    /\ clients[c].pc = "got"
    /\ LET id == clients[c].sess.id
           found == smLookup(sm, id)
           messages == LoadMessages(msgRows, id)
           a == NewAgent(ServerConfig, NoProfile)
           as == [id |-> id,
                  agent |-> IF Len(messages) > 0 THEN SetHistory(a, messages) ELSE a,
                  cancel |-> "nil", mu |-> "free", epoch |-> epoch]
       IN  IF found # 0
           THEN /\ clients' = [clients EXCEPT ![c].pc = "open", ![c].as = found,
                                              ![c].epoch = epoch]
                /\ UNCHANGED <<sm, objs>>
           ELSE IF reqDone(c)
                THEN /\ clients' = [clients EXCEPT ![c].pc = "done"]
                     /\ UNCHANGED <<sm, objs>>
                ELSE /\ objs' = Append(objs, as)
                     /\ sm' = [sm EXCEPT ![id] = Len(objs) + 1]
                     /\ clients' = [clients EXCEPT ![c].pc = "open",
                                                   ![c].as = Len(objs) + 1,
                                                   ![c].epoch = epoch]
    /\ UNCHANGED <<chatVars, storeVars, delPc, srvPc, epoch, observers>>
    /\ UNCHANGED <<call, storeOp, registry>>

\* The message the client of c sends: the two clients send different texts.
ServerInput(c) == Text(c, IF c = "ws" THEN Sizes.small ELSE Sizes.args)

\* The agent of the ActiveSession the handler of c holds.
agentOf(c) == objs[clients[c].as].agent

\* After a step of Run / RunStreaming that left the agent of c as a.
ServerAfterStep(c, a) == objs' = [objs EXCEPT ![clients[c].as].agent = a]

\* handleSendMessage / processWebSocketMessage from as.mu.Lock() to the first
\* LLM call of Run / RunStreaming: the title on the first message, the
\* cancel function installed on the ActiveSession, compaction, the user
\* message.  The WebSocket handler reads the message from a live client.
BeginTurnWith(c, content) ==
    /\ srvPc # "down"
    /\ clients[c].pc = "open"
    /\ clients[c].sent < MaxTurns
    /\ c = "ws" => ~clients[c].gone
    /\ objs[clients[c].as].mu = "free"
    /\ LET sess == IF clients[c].sess.title = 0
                   THEN [clients[c].sess EXCEPT !.title = generateTitle(content)]
                   ELSE clients[c].sess
       IN  /\ sessRows' = IF clients[c].sess.title = 0
                          THEN UpdateSession(sessRows, storeCtxDone(c), sess)
                          ELSE sessRows
           /\ \E o \in OutcomesFor(agentOf(c).history, agentOf(c).maxTokens) :
                LET r == compactHistory(agentOf(c).history, agentOf(c).maxTokens, o)
                IN  /\ objs' = [objs EXCEPT
                           ![clients[c].as].mu = c,
                           ![clients[c].as].cancel = c,
                           ![clients[c].as].agent =
                               runBegin(IF c = "ws" THEN SetCallbacks(agentOf(c), c)
                                        ELSE agentOf(c), content, o)]
                    /\ clients' = [clients EXCEPT
                           ![c].pc = "turn", ![c].sess = sess, ![c].cancelled = FALSE,
                           ![c].sent = @ + 1, ![c].start = Len(r.history),
                           ![c].goneInTurn = FALSE, ![c].endedCancelled = FALSE,
                           ![c].synced = FALSE, ![c].block = <<>>,
                           ![c].failed = FALSE, ![c].saveFailed = FALSE,
                           ![c].outcome = "none", ![c].cancelledCall = FALSE]
    /\ UNCHANGED <<chatVars, msgRows, sm, delPc, srvPc, epoch, observers>>
    /\ UNCHANGED <<call, storeOp, registry>>

\* A turn on a message of the same length from either client.
BeginTurn(c) == BeginTurnWith(c, Text(c, Sizes.small))

\* A turn on the client's own message, the two differing in their titles.
BeginTurnTitled(c) == BeginTurnWith(c, ServerInput(c))

\* One ChatCompletion(Stream) call of the turn of c, the LLM answering with
\* one of replies, and the append of its reply.
ServerLLMStepOver(c, replies) ==
    /\ srvPc # "down"
    /\ clients[c].pc = "turn"
    /\ agentOf(c).at = "llm"
    /\ \E r \in replies :
         LET b == llmStep(agentOf(c), r, c = "ws", agentOf(c).llm)
         IN  /\ ServerAfterStep(c, b)
             /\ clients' = [wsCallbacks(clients, c, agentOf(c), b) EXCEPT
                              ![c].cancelledCall = @ \/ ctxDone(c)]
    /\ UNCHANGED <<chatVars, storeVars, sm, delPc, srvPc, epoch, observers>>
    /\ UNCHANGED <<call, storeOp, registry>>

ServerLLMStep(c) == ServerLLMStepOver(c, ServerReplies(agentOf(c).iter, ctxDone(c)))

\* One pass of the tool loop of the turn of c.
ServerToolStep(c) ==
    /\ srvPc # "down"
    /\ clients[c].pc = "turn"
    /\ agentOf(c).at = "tools"
    /\ LET b == toolStep(agentOf(c), ctxDone(c))
       IN  /\ ServerAfterStep(c, b)
           /\ clients' = wsCallbacks(clients, c, agentOf(c), b)
    /\ UNCHANGED <<chatVars, storeVars, sm, delPc, srvPc, epoch, observers>>
    /\ UNCHANGED <<call, storeOp, registry>>

\* The deferred functions of a turn's handler, run on every return of it:
\* as.Cancel = nil, then as.mu.Unlock().
turnDeferredKeepsLock(as) == [as EXCEPT !.cancel = "nil"]

turnDeferred(as) == [as EXCEPT !.mu = "free", !.cancel = "nil"]

\* Run / RunStreaming has returned: cancel(), SaveMessages under the
\* handler's store context, the last write to the client, as.Cancel = nil,
\* as.mu.Unlock().  The WebSocket
\* handler goes back to reading, the REST handler returns.
EndTurn(c) ==
    /\ srvPc # "down"
    /\ clients[c].pc = "turn"
    /\ agentOf(c).at = "idle"
    /\ \E fk \in ForeignKeys(sessRows, clients[c].sess.id) :
         LET id == clients[c].sess.id
             failed == agentOf(c).result # "ok"
             saveFailed == SaveFails(sessRows, msgRows, storeCtxDone(c), id, fk)
             outcome == IF c = "ws" THEN wsOutcome(failed, ctxDone(c))
                        ELSE restOutcome(failed, saveFailed)
         IN  /\ msgRows' = SaveMessages(sessRows, msgRows, storeCtxDone(c), id,
                                         agentOf(c).history, fk)
             /\ clients' = [clients EXCEPT
                    ![c].pc = IF c = "ws" THEN "open" ELSE "done",
                    ![c].endedCancelled = ctxDone(c),
                    ![c].cancelled = TRUE,
                    ![c].synced = /\ msgRows'[id].present
                                  /\ msgRows'[id].messages = agentOf(c).history,
                    ![c].block = SubSeq(agentOf(c).history, clients[c].start + 1,
                                        Len(agentOf(c).history)),
                    ![c].failed = failed,
                    ![c].saveFailed = saveFailed,
                    ![c].outcome = outcome,
                    ![c].conn = Append(@, Written(outcome, 0, c, clients[c].sent))]
    /\ objs' = [objs EXCEPT ![clients[c].as] = turnDeferred(@)]
    /\ UNCHANGED <<chatVars, sessRows, sm, delPc, srvPc, epoch, observers>>
    /\ UNCHANGED <<call, storeOp, registry>>

\* The client of c goes away: its WebSocket closes, or its request is
\* abandoned.  (goneInTurn: while Run / RunStreaming is running.)
Disconnect(c) ==
    /\ srvPc # "down"
    /\ clients[c].pc # "done"
    /\ ~clients[c].gone
    /\ clients' = [clients EXCEPT ![c].gone = TRUE,
                                  ![c].goneInTurn = /\ clients[c].pc = "turn"
                                                    /\ agentOf(c).at # "idle"]
    /\ UNCHANGED <<chatVars, storeVars, sm, objs, delPc, srvPc, epoch, observers>>
    /\ UNCHANGED <<call, storeOp, registry>>

\* The read loop of handleWebSocket finds the connection closed and returns.
ReadClosed(c) ==
    /\ srvPc # "down"
    /\ c = "ws"
    /\ clients[c].pc = "open"
    /\ clients[c].gone
    /\ clients' = [clients EXCEPT ![c].pc = "done"]
    /\ UNCHANGED <<chatVars, storeVars, sm, objs, delPc, srvPc, epoch, observers>>
    /\ UNCHANGED <<call, storeOp, registry>>

\* What Remove / CloseAll may read from as.Cancel of each entry: the field is
\* written under as.mu and read under sm.mu, so the read is unordered with
\* the write of a turn and yields the installed function or the nil before it.
CancelReads ==
    {seen \in [SessionIDs -> Clients \cup {"nil"}] :
        \A id \in SessionIDs :
            seen[id] \in (IF sm[id] # 0 THEN {objs[sm[id]].cancel, "nil"} ELSE {"nil"})}

\* The body of Remove for each of ids (CloseAll: every id): the cancel
\* function read from the entry is called, and the entry deleted.
Evict(ids, seen) ==
    /\ clients' = [c \in Clients |->
                     IF \E id \in ids : sm[id] # 0 /\ seen[id] = c
                     THEN [clients[c] EXCEPT !.cancelled = TRUE]
                     ELSE clients[c]]
    /\ sm' = [id \in SessionIDs |-> IF id \in ids THEN 0 ELSE sm[id]]
    /\ epoch' = epoch + 1
    /\ UNCHANGED <<call, storeOp, registry>>

\* handleDeleteSession: SessionManager.Remove(id).
DeleteRemove ==
    /\ srvPc = "up"
    /\ delPc = "idle"
    /\ \E seen \in CancelReads : Evict({ServedSession}, seen)
    /\ delPc' = "removed"
    /\ UNCHANGED <<chatVars, storeVars, objs, srvPc, observers>>
    /\ UNCHANGED <<call, storeOp, registry>>

\* handleDeleteSession with a proper prefix of the session id in the URL:
\* SessionManager.Remove(prefix) finds no entry under that key and does
\* nothing; DeleteSession resolves the prefix afterwards.
DeleteRemovePrefix ==
    /\ srvPc = "up"
    /\ delPc = "idle"
    /\ delPc' = "removed"
    /\ UNCHANGED <<chatVars, storeVars, sm, objs, clients, srvPc, epoch, observers>>
    /\ UNCHANGED <<call, storeOp, registry>>

\* handleDeleteSession: DeleteSession up to its first DELETE; the session is
\* looked up, then its message row deleted.
DeleteMessages ==
    /\ srvPc # "down"
    /\ delPc = "removed"
    /\ IF sessRows[ServedSession].present
       THEN /\ msgRows' = [msgRows EXCEPT ![ServedSession] = NoRow]
            /\ delPc' = "messages_deleted"
       ELSE /\ msgRows' = msgRows
            /\ delPc' = "done"
    /\ UNCHANGED <<chatVars, sessRows, sm, objs, clients, srvPc, epoch, observers>>
    /\ UNCHANGED <<call, storeOp, registry>>

\* handleDeleteSession: the second DELETE of DeleteSession; on a connection
\* that enforces foreign keys (fk) it cascades to a message row written since.
DeleteRow ==
    /\ srvPc # "down"
    /\ delPc = "messages_deleted"
    /\ sessRows' = [sessRows EXCEPT ![ServedSession] = NoSession]
    /\ \E fk \in (IF msgRows[ServedSession].present THEN BOOLEAN ELSE {TRUE}) :
         msgRows' = IF fk THEN [msgRows EXCEPT ![ServedSession] = NoRow] ELSE msgRows
    /\ delPc' = "done"
    /\ UNCHANGED <<chatVars, sm, objs, clients, srvPc, epoch, observers>>
    /\ UNCHANGED <<call, storeOp, registry>>

\* Server.Shutdown: SessionManager.CloseAll.
CloseAll ==
    /\ srvPc = "up"
    /\ \E seen \in CancelReads : Evict(SessionIDs, seen)
    /\ srvPc' = "closing"
    /\ UNCHANGED <<chatVars, storeVars, objs, delPc, observers>>
    /\ UNCHANGED <<call, storeOp, registry>>

\* Server.Shutdown: http.Server.Shutdown; ListenAndServe returns, runServe
\* returns and the process ends with whatever handlers are still running:
\* its memory is gone, the store remains.
HTTPShutdown ==
    /\ srvPc = "closing"
    /\ srvPc' = "down"
    /\ sm' = [id \in SessionIDs |-> 0]
    /\ objs' = <<>>
    /\ clients' = [c \in Clients |-> [NewClient EXCEPT !.pc = "done"]]
    /\ delPc' = "done"
    /\ UNCHANGED <<chatVars, storeVars, epoch, observers>>
    /\ UNCHANGED <<call, storeOp, registry>>

NextServer ==
    \/ \E c \in Clients : GetSession(c)
    \/ \E c \in Clients : GetOrCreate(c)
    \/ \E c \in Clients : BeginTurn(c)
    \/ \E c \in Clients : ServerLLMStep(c)
    \/ \E c \in Clients : ServerToolStep(c)
    \/ \E c \in Clients : EndTurn(c)
    \/ \E c \in Clients : Disconnect(c)
    \/ \E c \in Clients : ReadClosed(c)
    \/ DeleteRemove
    \/ DeleteMessages
    \/ DeleteRow
    \/ CloseAll
    \/ HTTPShutdown

SpecServer == InitServer /\ [][NextServer]_vars

\* The two handlers with no DELETE and no shutdown beside them.
NextTurns ==
    \/ \E c \in Clients : GetSession(c)
    \/ \E c \in Clients : GetOrCreate(c)
    \/ \E c \in Clients : BeginTurnTitled(c)
    \/ \E c \in Clients : ServerLLMStep(c)
    \/ \E c \in Clients : ServerToolStep(c)
    \/ \E c \in Clients : EndTurn(c)
    \/ \E c \in Clients : Disconnect(c)
    \/ \E c \in Clients : ReadClosed(c)

SpecTurns == InitServer /\ [][NextTurns]_vars

\* The two handlers and a DELETE of the session by its id or by a prefix.
NextDelete ==
    \/ \E c \in Clients : GetSession(c)
    \/ \E c \in Clients : GetOrCreate(c)
    \/ \E c \in Clients : BeginTurnTitled(c)
    \/ \E c \in Clients : ServerLLMStep(c)
    \/ \E c \in Clients : ServerToolStep(c)
    \/ \E c \in Clients : EndTurn(c)
    \/ \E c \in Clients : Disconnect(c)
    \/ \E c \in Clients : ReadClosed(c)
    \/ DeleteRemove
    \/ DeleteRemovePrefix
    \/ DeleteMessages
    \/ DeleteRow

SpecDelete == InitServer /\ [][NextDelete]_vars

\* Every LLM call and every tool call of a turn returns, the handler's
\* goroutine runs on after them, and a handler blocked in as.mu.Lock() gets
\* the mutex once it stays free (sync.Mutex hands it to the waiter).
SpecTurnsLive ==
    /\ SpecTurns
    /\ \A c \in Clients :
          /\ WF_vars(ServerLLMStep(c))
          /\ WF_vars(ServerToolStep(c))
          /\ WF_vars(EndTurn(c))
    /\ WF_vars(BeginTurnTitled("rest"))

\* The two handlers with no DELETE and no shutdown beside them, and an LLM
\* that may answer with any reply: several tool calls, unknown and failing
\* tools, a stream that breaks after a delta.
StreamLLMStep(c) == ServerLLMStepOver(c, LLMReplies(agentOf(c).iter, ctxDone(c)))

\* The read loop of handleWebSocket has read a message that is no "message"
\* with a content, and begins to write its error frame: wsWriteJSON with no
\* lock held.  (One such message per connection.)
ReadInvalid(c) ==
    /\ c = "ws"
    /\ clients[c].pc = "open"
    /\ ~clients[c].gone
    /\ \A k \in 1..Len(clients[c].conn) : clients[c].conn[k].type # "invalid"
    /\ clients' = [clients EXCEPT ![c].pc = "replying"]
    /\ UNCHANGED <<chatVars, storeVars, sm, objs, delPc, srvPc, epoch, observers>>
    /\ UNCHANGED <<call, storeOp, registry>>

\* The write of the error frame returns and the loop reads on.  The frame
\* belongs to no turn (n = -1).
WroteInvalid(c) ==
    /\ clients[c].pc = "replying"
    /\ clients' = [clients EXCEPT
           ![c].pc = "open",
           ![c].conn = Append(@, [type |-> "invalid", id |-> NoID, by |-> c, n |-> -1])]
    /\ UNCHANGED <<chatVars, storeVars, sm, objs, delPc, srvPc, epoch, observers>>
    /\ UNCHANGED <<call, storeOp, registry>>

NextStream ==
    \/ \E c \in Clients : ReadInvalid(c)
    \/ \E c \in Clients : WroteInvalid(c)
    \/ \E c \in Clients : GetSession(c)
    \/ \E c \in Clients : GetOrCreate(c)
    \/ \E c \in Clients : BeginTurn(c)
    \/ \E c \in Clients : StreamLLMStep(c)
    \/ \E c \in Clients : ServerToolStep(c)
    \/ \E c \in Clients : EndTurn(c)
    \/ \E c \in Clients : Disconnect(c)
    \/ \E c \in Clients : ReadClosed(c)

SpecStream == InitServer /\ [][NextStream]_vars

\* ------------------------------------------------------------- LLM client
\* What one request to the provider yields: a response, or a failure with
\* the HTTP status of the response (0 when there was none: a transport
\* error, a cancelled context) and whether its text, which carries the URL
\* and the body, holds the characters "429" beside the status.
NoStatus == [code |-> 0]
RequestOK == [ok |-> TRUE, status |-> 200, mentions429 |-> FALSE]
Failure(status, mentions) == [ok |-> FALSE, status |-> status, mentions429 |-> mentions]
Failures ==
    {Failure(429, FALSE), Failure(500, FALSE), Failure(500, TRUE),
     Failure(NoStatus.code, FALSE), Failure(NoStatus.code, TRUE)}
ctxError == Failure(NoStatus.code, FALSE)

\* strings.Contains(err.Error(), "429"): the text of a 429 failure holds its
\* status.
mentions429(f) == f.status = 429 \/ f.mentions429

\* The loop `for attempt := range 3` and the wait 2<<attempt seconds.
retry == [attempts |-> 3, base |-> 2]
backoff(attempt) == retry.base * 2 ^ attempt

\* A call of ChatCompletion (op "complete") or of the stream-open loop of
\* ChatCompletionStream (op "stream"): attempt is the loop variable, seen the
\* outcomes of the requests made, waits the waits completed, in seconds,
\* err the error returned: that of the last request, or ctx.Err().
NewCall(op) ==
    [state |-> "request", op |-> op, attempt |-> 0, seen |-> <<>>, waits |-> <<>>,
     result |-> "none", err |-> "none"]

InitClient ==
    /\ agent = New(ChatConfig.maxIterations)
    /\ ChatOff
    /\ sessRows = [id \in SessionIDs |-> NoSession]
    /\ msgRows = [id \in SessionIDs |-> NoRow]
    /\ ServerOff
    /\ preHistory = <<>>
    /\ compactPath = "none"
    /\ call = NoCall
    /\ storeOp = NoStoreOp
    /\ registry = NewRegistry

\* ChatCompletion or ChatCompletionStream is called, under a live context.
ClientCall ==
    /\ call.state \in {"none", "returned"}
    /\ \E op \in {"complete", "stream"} : call' = NewCall(op)
    /\ ctxCancelled' = FALSE
    /\ UNCHANGED <<agent, pc, chat, storeVars, serverVars, observers, storeOp, registry>>

\* One pass of the loop up to the wait: the request, and what the loop makes
\* of its outcome.  A request under a cancelled context fails with the
\* context's error.
ClientRequest ==
    /\ call.state = "request"
    /\ \E o \in (IF ctxCancelled THEN {ctxError} ELSE {RequestOK} \cup Failures) :
         LET c == [call EXCEPT !.seen = Append(@, o)]
         IN  call' = IF o.ok THEN [c EXCEPT !.state = "returned", !.result = "ok"]
                     ELSE IF ~mentions429(o) \/ call.attempt = retry.attempts - 1
                          THEN [c EXCEPT !.state = "returned", !.result = "error",
                                         !.err = "request"]
                          ELSE [c EXCEPT !.state = "waiting"]
    /\ UNCHANGED <<chatVars, storeVars, serverVars, observers, storeOp, registry>>

\* The select of the wait: time.After fires.  A select blocked on both
\* channels is decided by the first of them to become ready, so the timer
\* wins only while the context is live; a context cancelled after the timer
\* has fired is cancelled before the next request.  (ClientWaitedEitherCase:
\* the timer case taken whatever the context.)
ClientWaitedEitherCase ==
    /\ call.state = "waiting"
    /\ call' = [call EXCEPT !.state = "request", !.attempt = @ + 1,
                            !.waits = Append(@, backoff(call.attempt))]
    /\ UNCHANGED <<chatVars, storeVars, serverVars, observers, storeOp, registry>>

ClientWaited ==
    /\ call.state = "waiting"
    /\ ~ctxCancelled
    /\ call' = [call EXCEPT !.state = "request", !.attempt = @ + 1,
                            !.waits = Append(@, backoff(call.attempt))]
    /\ UNCHANGED <<chatVars, storeVars, serverVars, observers, storeOp, registry>>

\* The select of the wait: ctx.Done() fires.
ClientWaitCancelled ==
    /\ call.state = "waiting"
    /\ ctxCancelled
    /\ call' = [call EXCEPT !.state = "returned", !.result = "error", !.err = "ctx"]
    /\ UNCHANGED <<chatVars, storeVars, serverVars, observers, storeOp, registry>>

\* The caller cancels the context of the call under way.
ClientCancel ==
    /\ call.state \in {"request", "waiting"}
    /\ ~ctxCancelled
    /\ ctxCancelled' = TRUE
    /\ UNCHANGED <<agent, pc, chat, storeVars, serverVars, observers, call, storeOp, registry>>

NextClient ==
    \/ ClientCall
    \/ ClientRequest
    \/ ClientWaited
    \/ ClientWaitCancelled
    \/ ClientCancel

SpecClient == InitClient /\ [][NextClient]_vars

\* ------------------------------------------------------ store (its callers)
\* A caller of the Store on a database of up to three sessions, under a
\* context that is never cancelled (context.Background()).  Session ids
\* are UUIDs: lower-case, of one length, none a prefix of another; here two
\* characters.  What the caller passes for an id is any short text.
StoreIDs == {<<"a", "a">>, <<"a", "b">>, <<"b", "a">>}
PrefixChars == {"a", "b", "A", "_", "%"}
Prefixes ==
    {<<>>} \cup {<<x>> : x \in PrefixChars} \cup StoreIDs
        \cup {<<"b", "b">>, <<"a", "_">>}

\* The lists the caller saves: none, a question, and a turn whose tool
\* result is the output of shell_exec cut at 4000 bytes inside a character.
MessageLists ==
    {<<>>,
     <<SystemMessage(defaultSystemPrompt), UserMessage(UserInput)>>,
     <<SystemMessage(defaultSystemPrompt), UserMessage(UserInput),
       Message(RoleAssistant, Text("text", 0),
               <<ToolCall(11, "shell_exec", Sizes.args)>>, NoID),
       ToolResultMessage(11, Text("cut", Sizes.big))>>}

\* saved: per id, the argument of the last SaveMessages that succeeded since
\* the session was last deleted (an observer).
NothingSaved == [any |-> FALSE, messages |-> <<>>]
StoreOp(op, arg, res, err, messages, saved) ==
    [op |-> op, arg |-> arg, res |-> res, err |-> err, messages |-> messages,
     saved |-> saved]

InitStore ==
    /\ agent = New(ChatConfig.maxIterations)
    /\ ChatOff
    /\ sessRows = [id \in StoreIDs |-> NoSession]
    /\ msgRows = [id \in StoreIDs |-> NoRow]
    /\ ServerOff
    /\ preHistory = <<>>
    /\ compactPath = "none"
    /\ call = NoCall
    /\ storeOp = StoreOp("none", <<>>, NotFound, "none", <<>>,
                         [id \in StoreIDs |-> NothingSaved])
    /\ registry = NewRegistry

\* CreateSession: the insert of the session row, then of the message row;
\* each fails on a row that exists.
StoreCreate ==
    /\ \E id \in StoreIDs :
         LET sess == [id |-> id, title |-> 0, status |-> StatusActive]
         IN  IF sessRows[id].present
             THEN /\ UNCHANGED <<sessRows, msgRows>>
                  /\ storeOp' = StoreOp("create", id, Found(id), "exists", <<>>,
                                        storeOp.saved)
             ELSE /\ sessRows' = [sessRows EXCEPT ![id] = CreateSessionRow(sess)]
                  /\ msgRows' = IF msgRows[id].present THEN msgRows
                                ELSE [msgRows EXCEPT ![id] = EmptyRow]
                  /\ storeOp' = StoreOp("create", id, Found(id),
                                        IF msgRows[id].present THEN "exists" ELSE "none",
                                        <<>>, storeOp.saved)
    /\ UNCHANGED <<chatVars, serverVars, observers, call, registry>>

\* SaveMessages, on a connection that enforces foreign keys or on one that
\* does not.
StoreSave ==
    /\ \E id \in StoreIDs, messages \in MessageLists :
       \E fk \in ForeignKeys(sessRows, id) :
         LET done == FALSE
             fails == SaveFails(sessRows, msgRows, done, id, fk)
         IN  /\ msgRows' = SaveMessages(sessRows, msgRows, done, id, messages, fk)
             /\ storeOp' = StoreOp("save", id, Found(id),
                                   IF fails THEN "error" ELSE "none", messages,
                                   IF fails THEN storeOp.saved
                                   ELSE [storeOp.saved EXCEPT
                                            ![id] = [any |-> TRUE, messages |-> messages]])
    /\ UNCHANGED <<chatVars, sessRows, serverVars, observers, call, registry>>

\* LoadMessages.
StoreLoad ==
    /\ \E id \in StoreIDs :
         storeOp' = StoreOp("load", id, Found(id), "none", LoadMessages(msgRows, id),
                            storeOp.saved)
    /\ UNCHANGED <<chatVars, storeVars, serverVars, observers, call, registry>>

\* GetSession.
StoreGet ==
    /\ \E p \in Prefixes :
         storeOp' = StoreOp("get", p, storeGetSession(sessRows, p), "none", <<>>,
                            storeOp.saved)
    /\ UNCHANGED <<chatVars, storeVars, serverVars, observers, call, registry>>

\* The two statements of DeleteSession.
deleteMessagesKept(rows, id) == rows

deleteMessages(rows, id) == [rows EXCEPT ![id] = NoRow]

deleteSession(sessions, id) == [sessions EXCEPT ![id] = NoSession]

\* DeleteSession: GetSession, then the two statements.
StoreDelete ==
    /\ \E p \in Prefixes :
         LET r == storeGetSession(sessRows, p)
             saved == IF r.err = "none"
                      THEN [storeOp.saved EXCEPT ![r.id] = NothingSaved]
                      ELSE storeOp.saved
         IN  /\ msgRows' = IF r.err = "none"
                           THEN deleteMessages(msgRows, r.id) ELSE msgRows
             /\ sessRows' = IF r.err = "none"
                            THEN deleteSession(sessRows, r.id) ELSE sessRows
             /\ storeOp' = StoreOp("delete", p, r, "none", <<>>, saved)
    /\ UNCHANGED <<chatVars, serverVars, observers, call, registry>>

NextStore ==
    \/ StoreCreate
    \/ StoreSave
    \/ StoreLoad
    \/ StoreGet
    \/ StoreDelete

SpecStore == InitStore /\ [][NextStore]_vars

\* ---------------------------------------------- registry (its callers)
\* A caller of the Registry: the start of the program registers the
\* configured servers, turns call tools, the exit closes.
InitRegistry ==
    /\ agent = New(ChatConfig.maxIterations)
    /\ ChatOff
    /\ sessRows = [id \in SessionIDs |-> NoSession]
    /\ msgRows = [id \in SessionIDs |-> NoRow]
    /\ ServerOff
    /\ preHistory = <<>>
    /\ compactPath = "none"
    /\ call = NoCall
    /\ storeOp = NoStoreOp
    /\ registry = NewRegistry

RegistryRegister ==
    /\ \E name \in Servers, enabled \in BOOLEAN, launch \in Launches :
         registry' = Register(registry, name, enabled, launch)
    /\ UNCHANGED <<chatVars, storeVars, serverVars, observers, call, storeOp>>

RegistryCallTool ==
    /\ \E tool \in ToolNames : registry' = CallTool(registry, tool)
    /\ UNCHANGED <<chatVars, storeVars, serverVars, observers, call, storeOp>>

RegistryClose ==
    /\ registry' = Close(registry)
    /\ UNCHANGED <<chatVars, storeVars, serverVars, observers, call, storeOp>>

NextRegistry ==
    \/ RegistryRegister
    \/ RegistryCallTool
    \/ RegistryClose

SpecRegistry == InitRegistry /\ [][NextRegistry]_vars

\* ------------------------------------------------------ history predicates
HasCalls(m) == m.role = RoleAssistant /\ Len(m.tool_calls) > 0

\* Every assistant message of h from Go index `from` on that carries k tool
\* calls is followed by exactly k tool messages answering them in order.
CallsAnswered(h, from) ==
    \A i \in from..(Len(h) - 1) :
        HasCalls(At(h, i)) =>
            LET k == Len(At(h, i).tool_calls)
            IN  /\ i + k <= Len(h) - 1
                /\ \A j \in 1..k :
                     /\ At(h, i + j).role = RoleTool
                     /\ At(h, i + j).tool_call_id = At(h, i).tool_calls[j].id
                /\ (i + k + 1 <= Len(h) - 1 => At(h, i + k + 1).role # RoleTool)

\* Every tool message of h answers a call of the assistant message that
\* opens its group: no group is entered in the middle.
NoOrphanResult(h) ==
    \A i \in 0..(Len(h) - 1) :
        At(h, i).role = RoleTool =>
            \E a \in 0..(i - 1) :
                /\ HasCalls(At(h, a))
                /\ i - a <= Len(At(h, a).tool_calls)
                /\ At(h, i).tool_call_id = At(h, a).tool_calls[i - a].id

Adjacent(h) == CallsAnswered(h, 0) /\ NoOrphanResult(h)

\* ------------------------------------------------------------------ properties

\* C6: if the history satisfies the tool-call adjacency invariant before
\* compaction, it satisfies it after compactHistory on every path, the kept
\* window never starting inside a tool-call/result group.
C6_AdjacencyPreserved ==
    (pc = "compacted" /\ Adjacent(preHistory)) => Adjacent(agent.history)

\* C7: the token estimate after compactHistory is at most max_tokens or
\* equal to the estimate before compaction.
C7_EstimateBounded ==
    pc = "compacted" =>
        \/ estimateHistoryTokens(agent.history) <= agent.maxTokens
        \/ estimateHistoryTokens(agent.history) = estimateHistoryTokens(preHistory)

\* C4: after every public operation on an Agent and for every input,
\* including the resume of a session whose stored message list is empty, the
\* history is non-empty and its message at index 0 has role system.
C4_SystemMessageFirst ==
    pc \in {"idle", "turn"} =>
        (Len(agent.history) >= 1 /\ At(agent.history, 0).role = RoleSystem)

\* C5: after Run or RunStreaming returns, with any outcome, every assistant
\* message appended during the turn that carries k tool calls is immediately
\* followed by exactly k tool messages with the ids of the calls, in order.
C5_TurnLeavesCallsAnswered ==
    (pc = "idle" /\ agent.result # "none") => CallsAnswered(agent.history, turnStart)

\* A turn cancelled while the results of a two-call reply were outstanding
\* has returned with an error.
C5_Witness ==
    /\ pc = "idle"
    /\ agent.result \in {"llm_error", "iter_limit"}
    /\ ctxCancelled
    /\ toolAfterCancel >= 1
    /\ \E i \in (turnStart + 1)..Len(agent.history) :
         Len(agent.history[i].tool_calls) = 2

\* C10: once the context of a running turn is cancelled, Run/RunStreaming
\* returns after at most one further LLM step and at most one further
\* tool-call step.
C10_ReturnsWithinOneStepEach ==
    llmAfterCancel <= 1 /\ toolAfterCancel <= 1

\* The turns of the handlers of a session that are in flight.
InFlight(id) == {c \in Clients : clients[c].pc = "turn" /\ clients[c].sess.id = id}

\* The handler of c has ended a turn and is in none.
TurnEnded(c) == clients[c].sent > 0 /\ clients[c].pc # "turn"

\* C1: for every session id at most one turn is in flight at any time, over
\* every interleaving of GetOrCreate, WebSocket turns, REST turns, Remove
\* and CloseAll.
C1_OneTurnInFlight ==
    \A id \in SessionIDs : Cardinality(InFlight(id)) <= 1

\* The list m ends with the list b.
EndsWith(m, b) == Len(m) >= Len(b) /\ SubSeq(m, Len(m) - Len(b) + 1, Len(m)) = b

\* C2: when the two handlers have each completed one turn on the same
\* session, the persisted message list ends with the messages of the one
\* turn followed by the messages of the other, none missing, not interleaved.
C2_BothBlocksPersisted ==
    LET a == clients["ws"]
        b == clients["rest"]
        m == LoadMessages(msgRows, ServedSession)
    IN  (/\ TurnEnded("ws") /\ TurnEnded("rest")
         /\ a.sent = 1 /\ b.sent = 1
         /\ sessRows[ServedSession].present /\ msgRows[ServedSession].present)
        => (EndsWith(m, a.block \o b.block) \/ EndsWith(m, b.block \o a.block))

\* C3: GetOrCreate calls for the same session id with no Remove or CloseAll
\* in between return the same ActiveSession, and one agent is constructed
\* for the id.
C3_OneActiveSessionPerId ==
    /\ \A c1, c2 \in Clients :
         (/\ clients[c1].as # 0 /\ clients[c2].as # 0
          /\ clients[c1].sess.id = clients[c2].sess.id
          /\ clients[c1].epoch = clients[c2].epoch)
         => clients[c1].as = clients[c2].as
    /\ \A i, j \in 1..Len(objs) :
         (objs[i].id = objs[j].id /\ objs[i].epoch = objs[j].epoch) => i = j

\* Both handlers hold the ActiveSession of the session, returned by two
\* GetOrCreate calls with no Remove or CloseAll before or between them.
C3_Witness ==
    /\ \A c \in Clients : clients[c].as = 1 /\ clients[c].epoch = 0
    /\ Len(objs) = 1
    /\ epoch = 0

\* C8: after every turn ends, whatever its outcome, on the WebSocket and on
\* the REST path, the message list stored for the session equals the
\* history of the agent at the end of that turn.
C8_StoredEqualsHistory ==
    \A c \in Clients : TurnEnded(c) => clients[c].synced

\* C9: if the client that started a turn disconnects while the turn is in
\* flight, the context of the turn is cancelled before the turn ends.
C9_DisconnectCancelsTurn ==
    \A c \in Clients :
        (TurnEnded(c) /\ clients[c].goneInTurn) => clients[c].endedCancelled

\* C11: when a streaming LLM call is cancelled or aborted after text deltas
\* were delivered to the sink, an assistant message holding the partial
\* reply is appended to the history before RunStreaming returns.
C11_PartialReplyKept ==
    (/\ pc = "idle"
     /\ agent.result = "llm_error"
     /\ agent.out[Len(agent.out)].type = "delta")
    => (/\ Len(agent.history) > turnStart + 1
        /\ agent.history[Len(agent.history)].role = RoleAssistant)

\* C13: the persisted status of a session is running while a turn is in
\* flight on it, active again when the turn has succeeded, and failed when
\* the turn has ended in an error.
C13_StatusFollowsTurn ==
    /\ pc = "turn" => sessRows[chat.id].status = StatusRunning
    /\ (pc = "idle" /\ agent.result = "ok") => sessRows[chat.id].status = StatusActive
    /\ (pc = "idle" /\ agent.result \in {"llm_error", "iter_limit"})
           => sessRows[chat.id].status = StatusFailed

\* C14: whenever the interactive chat exits gracefully (end of input or
\* interrupt at the prompt, or the /quit, /exit or /q command) the persisted
\* status of its session is completed.
C14_CompletedOnExit ==
    pc = "exited" => sessRows[chat.id].status = StatusCompleted

\* The tool messages of h after index from that answer the call id.
Answers(h, from, id) ==
    {i \in (from + 1)..Len(h) : h[i].role = RoleTool /\ h[i].tool_call_id = id}

\* The calls requested by the replies of the running or last turn that the
\* tool loop has already executed.
ExecutedCalls(a, from) ==
    {tc \in UNION {{a.history[i].tool_calls[j] : j \in 1..Len(a.history[i].tool_calls)} :
                      i \in (from + 1)..Len(a.history)} :
        \A k \in 1..Len(a.pending) : a.pending[k] # tc}

\* Index of the last tool message of h after index from, 0 if there is none.
LastToolMessage(h, from) ==
    LET S == {i \in (from + 1)..Len(h) : h[i].role = RoleTool}
    IN  IF S = {} THEN 0 ELSE CHOOSE i \in S : \A j \in S : j <= i

\* C15: a tool failure never ends a turn.  Every executed call is answered
\* by exactly one tool message, which is an error text beginning with
\* "error:" when the tool is unknown, reports isError, or was called under a
\* cancelled context; after a tool result the turn goes on to the next LLM
\* call or the rest of the tool loop unless the iteration limit is reached,
\* and an error return other than the iteration limit follows a failed LLM
\* call.
C15_ToolFailuresAnswered ==
    (pc = "turn" \/ (pc = "idle" /\ agent.result # "none")) =>
        /\ \A tc \in ExecutedCalls(agent, turnStart) :
             /\ Cardinality(Answers(agent.history, turnStart, tc.id)) = 1
             /\ (tc.name \notin RegistryIndex \/ tc.name \in FailingTools) =>
                   \A i \in Answers(agent.history, turnStart, tc.id) :
                       agent.history[i].content.kind = "error"
        /\ toolAfterCancel >= 1 =>
             /\ LastToolMessage(agent.history, turnStart) # 0
             /\ agent.history[LastToolMessage(agent.history, turnStart)].content.kind = "error"
        /\ agent.out[Len(agent.out)].type = "tool_result" =>
             \/ agent.at \in {"llm", "tools"}
             \/ agent.result = "iter_limit" /\ agent.iter = agent.maxIter
        /\ agent.result = "llm_error" =>
             agent.out[Len(agent.out)].type \in {"llm", "delta"}

\* A turn in which a call of an unknown tool was answered with an error text
\* and a further LLM call then ended the turn with a reply.
C15_Witness ==
    /\ pc = "idle"
    /\ agent.result = "ok"
    /\ \E i \in (turnStart + 1)..Len(agent.history) :
         /\ agent.history[i].role = RoleTool
         /\ agent.history[i].content = Text("error", 24)
    /\ \E k \in 1..Len(agent.out) : agent.out[k].type = "llm" /\ agent.out[k].id = 1

\* The LLM calls the running or last turn of a has made.
LLMCalls(a) == Cardinality({k \in 1..Len(a.out) : a.out[k].type = "llm"})

\* The replies appended to h after index from.
RepliesSince(h, from) == {i \in (from + 1)..Len(h) : h[i].role = RoleAssistant}

\* What C16 says of every state of a turn and of its return.
C16_Bounded ==
    (pc = "turn" \/ (pc = "idle" /\ agent.result # "none")) =>
        /\ LLMCalls(agent) <= agent.maxIter
        /\ agent.result = "ok" =>
             /\ agent.history[Len(agent.history)].role = RoleAssistant
             /\ agent.response = agent.history[Len(agent.history)].content
             /\ \A i \in RepliesSince(agent.history, turnStart) :
                    agent.history[i].tool_calls = <<>> <=> i = Len(agent.history)
        /\ agent.result = "iter_limit" =>
             /\ LLMCalls(agent) = agent.maxIter
             /\ Cardinality(RepliesSince(agent.history, turnStart)) = agent.maxIter
             /\ \A i \in RepliesSince(agent.history, turnStart) :
                    agent.history[i].tool_calls # <<>>

C12_TurnKeepsClient ==
    \A k \in 1..Len(agent.out) :
        agent.out[k].type = "llm" => agent.out[k].client = agent.out[1].client

\* The ids of the tool calls of the replies in h, in the order of h.
RECURSIVE CallIds(_)
CallIds(h) ==
    IF h = <<>> THEN <<>>
    ELSE [j \in 1..Len(Head(h).tool_calls) |-> Head(h).tool_calls[j].id]
         \o CallIds(Tail(h))

\* The ids of the calls the running or last turn of c has executed so far.
ExecutedIds(c) ==
    LET a == agentOf(c)
        ids == CallIds(SubSeq(a.history, clients[c].start + 1, Len(a.history)))
    IN  SubSeq(ids, 1, Len(ids) - Len(a.pending))

\* The last writes of a handler for a turn.
Terminals == {"done", "error", "interrupted", "ok", "agent_error", "saving_error"}

\* What the n-th turn of the handler of c caused to be written to the
\* connection of x, in order.
TurnWrites(x, c, n) ==
    LET OfTurn(w) == w.by = c /\ w.n = n
    IN  SelectSeq(clients[x].conn, OfTurn)

\* The tool-call events among the writes w.
ToolCallWrites(w) ==
    LET IsCall(e) == e.type = "tool_call"
    IN  SelectSeq(w, IsCall)

\* The order of the events of each turn on each connection.
C17_Ordered ==
    \A x \in Clients :
        LET log == clients[x].conn
        IN  /\ \A k \in 1..Len(log) :
                 /\ log[k].type = "tool_call" =>
                       /\ k < Len(log)
                       /\ log[k + 1] = [log[k] EXCEPT !.type = "tool_result"]
                 /\ log[k].type = "tool_result" =>
                       /\ k > 1
                       /\ log[k - 1] = [log[k] EXCEPT !.type = "tool_call"]
                 /\ log[k].type \in Terminals =>
                       /\ log[k].by = x
                       /\ \A l \in 1..Len(log) :
                            (log[l].by = x /\ log[l].n = log[k].n) => l <= k
            /\ \A n \in 1..clients[x].sent :
                 LET ended == n < clients[x].sent \/ clients[x].pc # "turn"
                     IsTerminal(e) == e.type \in Terminals
                 IN  Len(SelectSeq(TurnWrites(x, x, n), IsTerminal)) = IF ended THEN 1 ELSE 0
            /\ \A c \in Clients :
                 (clients[c].pc = "turn" /\ agentOf(c).sink = x) =>
                     LET w == ToolCallWrites(TurnWrites(x, c, clients[c].sent))
                     IN  [k \in 1..Len(w) |-> w[k].id] = ExecutedIds(c)

\* Once the handler of c has written the terminal event of a turn, nothing
\* more of that turn is written to any connection.
C17_NothingAfterTerminal ==
    \A c \in Clients, x \in Clients :
        (clients[c].pc # "turn" /\ clients'[c].sent = clients[c].sent) =>
            TurnWrites(x, c, clients[c].sent)' = TurnWrites(x, c, clients[c].sent)

\* C17: the events of one turn reach the sink as text deltas and (tool-call,
\* tool-result) pairs, every tool-call event immediately followed by the
\* tool-result event of the same call, the pairs of one reply in the order
\* the LLM emitted the calls, then exactly one terminal event, after which
\* no event of that turn is delivered.
C17_EventSequence == []C17_Ordered /\ [][C17_NothingAfterTerminal]_vars

\* A WebSocket turn whose reply carried two tool calls has written the two
\* pairs and then its terminal event.
C17_Witness ==
    /\ clients["ws"].pc = "open"
    /\ Len(clients["ws"].conn) = 5
    /\ clients["ws"].conn[1].type = "tool_call"
    /\ clients["ws"].conn[3].type = "tool_call"
    /\ clients["ws"].conn[3].id # clients["ws"].conn[1].id
    /\ clients["ws"].conn[5].type \in Terminals

\* C18: a turn that ended because an LLM call of it ran into the cancelled
\* context is reported to a caller that is still there as interrupted, an
\* outcome no other error is reported with, on the WebSocket and on REST.
C18_InterruptedDistinguished ==
    \A c \in Clients :
        (/\ TurnEnded(c)
         /\ clients[c].failed
         /\ clients[c].cancelledCall
         /\ ~clients[c].gone)
        => clients[c].outcome = "interrupted"

\* C19: when the turn has produced its reply and the SaveMessages after it
\* fails, the handler still returns the reply, on the WebSocket and on REST.
C19_ReplySurvivesSaveFailure ==
    \A c \in Clients :
        (/\ TurnEnded(c)
         /\ ~clients[c].failed
         /\ clients[c].saveFailed
         /\ ~clients[c].gone)
        => clients[c].outcome \in {"done", "ok"}

\* C20: a call of the client issues at most 3 requests; a request that fails
\* with HTTP 429 is retried after 2s before the second attempt and 4s before
\* the third; a failure that is not a 429 is returned at once with no
\* further request; a 429 on the third attempt is returned as an error.
C20_RetriesOnly429 ==
    call.state # "none" =>
        /\ Len(call.seen) <= 3
        /\ \A k \in 1..Len(call.waits) : call.waits[k] = 2 ^ k
        /\ \A k \in 1..Len(call.seen) :
             (~call.seen[k].ok /\ call.seen[k].status # 429) =>
                 /\ k = Len(call.seen)
                 /\ call.state = "returned"
                 /\ call.result = "error"
        /\ (Len(call.seen) = 3 /\ call.seen[3].status = 429) =>
             (call.state = "returned" /\ call.result = "error")

\* A step of a call whose context is cancelled while it waits in a backoff:
\* the call returns ctx.Err(), with no request and no wait added.
C21_StepFromCancelledWait ==
    (call.state = "waiting" /\ ctxCancelled) =>
        /\ call'.state = "returned"
        /\ call'.result = "error"
        /\ call'.err = "ctx"
        /\ call'.seen = call.seen
        /\ call'.waits = call.waits

\* C21: when the context is cancelled while ChatCompletion or the stream
\* open of ChatCompletionStream waits in a rate-limit backoff, the call
\* returns the cancellation error without waiting out the backoff and
\* without another request, and not the rate-limit error.
C21_CancelEndsBackoff == [][C21_StepFromCancelledWait]_vars

\* A call cancelled in its second backoff has returned the context's error
\* after two requests and one completed wait.
C21_Witness ==
    /\ call.state = "returned"
    /\ call.err = "ctx"
    /\ Len(call.seen) = 2
    /\ Len(call.waits) = 1

\* C22: LoadMessages(id) returns the list the last SaveMessages(id) was
\* given, the same messages in the same order, each save replacing the list
\* before it, and the empty list when nothing was saved for id.
C22_LoadReturnsLastSaved ==
    storeOp.op = "load" =>
        storeOp.messages = IF storeOp.saved[storeOp.arg].any
                           THEN storeOp.saved[storeOp.arg].messages
                           ELSE <<>>

\* p is a literal prefix of id.
IsPrefix(p, id) == Len(p) <= Len(id) /\ SubSeq(id, 1, Len(p)) = p

\* C23: GetSession(p) returns the session with the id p when there is one;
\* otherwise, of the sessions whose id has p as a literal prefix, none gives
\* NotFound, one gives that session, more give AmbiguousPrefix.
C23_GetSessionByLiteralPrefix ==
    storeOp.op = "get" =>
        LET p == storeOp.arg
            withPrefix == {id \in StoreIDs : sessRows[id].present /\ IsPrefix(p, id)}
        IN  storeOp.res =
               IF p \in StoreIDs /\ sessRows[p].present THEN Found(p)
               ELSE IF withPrefix = {} THEN NotFound
               ELSE IF Cardinality(withPrefix) = 1
                    THEN Found(CHOOSE id \in withPrefix : TRUE)
               ELSE AmbiguousPrefix

\* A step of DeleteSession(p): p is resolved as GetSession resolves it; on
\* success the two rows of the resolved session are gone, GetSession of its
\* id fails, LoadMessages of it has no messages and every other row is as
\* before; on NotFound and AmbiguousPrefix no row changes.
C24_DeleteStep ==
    (storeOp' # storeOp /\ storeOp'.op = "delete") =>
        LET r == storeGetSession(sessRows, storeOp'.arg)
        IN  /\ storeOp'.res = r
            /\ (r.err = "none" /\ storeOp'.err = "none") =>
                  /\ sessRows' = [sessRows EXCEPT ![r.id] = NoSession]
                  /\ msgRows' = [msgRows EXCEPT ![r.id] = NoRow]
                  /\ storeGetSession(sessRows', r.id).err # "none"
                  /\ LoadMessages(msgRows', r.id) = <<>>
            /\ r.err # "none" => UNCHANGED <<sessRows, msgRows>>

\* C24: DeleteSession removes exactly the rows of the session its argument
\* resolves to, and nothing when the argument does not resolve.
C24_DeleteRemovesResolved == [][C24_DeleteStep]_vars

\* A session with saved messages was deleted by a proper prefix of its id
\* while another session with messages stayed.
C24_Witness ==
    /\ storeOp.op = "delete"
    /\ storeOp.res.err = "none"
    /\ storeOp.err = "none"
    /\ storeOp.arg # storeOp.res.id
    /\ \E id \in StoreIDs : sessRows[id].present /\ Len(msgRows[id].messages) > 0

\* A step of Remove(ids) on the session manager: the cancel handle of the
\* turn in flight on each removed entry is invoked, the entries are deleted
\* (Get reports them absent) and the other entries stay.
RemoveStep(ids) ==
    /\ \A id \in ids :
          /\ smLookup(sm', id) = 0
          /\ (sm[id] # 0 /\ objs[sm[id]].cancel \in Clients) =>
                clients'[objs[sm[id]].cancel].cancelled
    /\ \A id \in SessionIDs \ ids : sm'[id] = sm[id]

C25_Step ==
    /\ (delPc = "idle" /\ delPc' = "removed") => RemoveStep({ServedSession})
    /\ (srvPc = "up" /\ srvPc' = "closing") => RemoveStep(SessionIDs)

\* C25: Remove(id) invokes the cancel handle of the turn in flight on the
\* entry of id, if any, and deletes the entry, leaving the others; CloseAll
\* does so for every entry; Get then reports the removed ids absent.
C25_RemoveCancelsInFlight == [][C25_Step]_vars

\* The maps of the registry.
RegistryMaps(r) ==
    <<[n \in Servers |-> r.connections[n].present],
      [n \in Servers |-> r.connections[n].tools],
      r.toolIndex>>

\* A step on the registry: the maps change only in a Register of an enabled
\* server whose launch succeeded, which enters the connection under the
\* server's name and maps each tool the server listed to that server,
\* whatever the name was mapped to; a disabled Register returns no error, a
\* failed launch its error, and both leave the maps and HasTools as they were.
C26_Step ==
    LET l == registry'.last
        grew == l.op = "register" /\ l.enabled /\ l.launch.ok
    IN  /\ (registry' # registry /\ ~grew) =>
              /\ RegistryMaps(registry') = RegistryMaps(registry)
              /\ HasTools(registry') = HasTools(registry)
        /\ (registry' # registry /\ grew) =>
              /\ l.err = "none"
              /\ registry'.connections[l.name].present
              /\ registry'.connections[l.name].tools = l.launch.tools
              /\ \A n \in Servers \ {l.name} :
                    registry'.connections[n] = registry.connections[n]
              /\ \A t \in ToolNames :
                    registry'.toolIndex[t] =
                        IF t \in l.launch.tools THEN l.name ELSE registry.toolIndex[t]
        /\ (registry' # registry /\ l.op = "register" /\ ~l.enabled) => l.err = "none"
        /\ (registry' # registry /\ l.op = "register" /\ l.enabled /\ ~l.launch.ok) =>
              l.err # "none"

\* C26: only a Register that is enabled and launches changes the registry's
\* maps, the last registered server winning a tool name; a disabled or
\* failed Register leaves them unchanged.
C26_OnlyRegisterChangesMaps == [][C26_Step]_vars

\* A second server was registered with a tool name the first had: the name
\* now leads to the second, the first keeps its other entries.
C26_Witness ==
    /\ registry.last.op = "register"
    /\ registry.last.enabled
    /\ registry.last.launch.ok
    /\ registry.last.name = "files"
    /\ registry.connections["shell"].present
    /\ "shell_exec" \in registry.connections["shell"].tools
    /\ registry.toolIndex["shell_exec"] = "files"

\* C27: compactHistory leaves the history as it was and calls no LLM when
\* the estimate of the history is at most max_tokens, and when the history
\* has at most two messages.
C27_NoopWithinBudget ==
    (/\ pc = "compacted"
     /\ \/ estimateHistoryTokens(preHistory) <= agent.maxTokens
        \/ Len(preHistory) <= 2) =>
        /\ agent.history = preHistory
        /\ compactPath = "noop"

\* compactHistory ran on a history of several turns whose estimate is above
\* 60% of max_tokens and within max_tokens.
C27_Witness ==
    /\ pc = "compacted"
    /\ Len(preHistory) > 4
    /\ estimateHistoryTokens(preHistory) <= agent.maxTokens
    /\ estimateHistoryTokens(preHistory) > (agent.maxTokens * 60) \div 100
    /\ findSplitPoint(preHistory, (agent.maxTokens * 60) \div 100) < Len(preHistory)

\* Budgets findSplitPoint is asked for: those of the max_tokens in use, and
\* none.
SplitBudgets == {(n * 60) \div 100 : n \in SeedMaxTokens} \cup {0}

\* findSplitPoint(messages, budget) is len(messages) or the index of a user
\* message from 2 on.
SplitPointOK(messages, budget) ==
    LET i == findSplitPoint(messages, budget)
    IN  \/ i = Len(messages)
        \/ /\ 2 <= i
           /\ i < Len(messages)
           /\ At(messages, i).role = RoleUser

\* C28: findSplitPoint returns len(messages) or an index i, 2 <= i < len, of
\* a user message; after a successful summarization the history is the old
\* system message, one system message that begins with the summary marker,
\* and messages[i..] as they were, so the kept tail begins with a user message.
C28_SplitAtUserMessage ==
    pc = "compacted" =>
        /\ \A b \in SplitBudgets : SplitPointOK(preHistory, b)
        /\ compactPath = "summary" =>
              LET i == findSplitPoint(preHistory, (agent.maxTokens * 60) \div 100)
              IN  /\ i < Len(preHistory)
                  /\ At(agent.history, 0) = At(preHistory, 0)
                  /\ At(agent.history, 1).role = RoleSystem
                  /\ At(agent.history, 1).content.kind = "summary"
                  /\ At(agent.history, 1).content.len >= summaryMarkerLen
                  /\ Slice(agent.history, 2, Len(agent.history))
                        = Slice(preHistory, i, Len(preHistory))
                  /\ At(agent.history, 2).role = RoleUser

\* A summarization whose budget walk stopped inside a tool-call group, the
\* split having moved back to the user message before it.
C28_Witness ==
    /\ pc = "compacted"
    /\ compactPath = "summary"
    /\ LET b == (agent.maxTokens * 60) \div 100
           w == splitWalk(preHistory, b, Len(preHistory) - 1, 0)
       IN  /\ w.exceeded
           /\ w.splitIdx < Len(preHistory)
           /\ At(preHistory, w.splitIdx).role = RoleTool
           /\ findSplitPoint(preHistory, b) < w.splitIdx

\* The last n messages of h.
LastMessages(h, n) == SubSeq(h, Len(h) - n + 1, Len(h))

\* C29: when compaction is needed and the summarizer's call fails,
\* compactHistory leaves at most 11 messages: the old system message, then
\* the most recent messages of the old history in their order.
C29_FallbackTrims ==
    (pc = "compacted" /\ compactPath = "fallback") =>
        /\ Len(agent.history) <= 11
        /\ At(agent.history, 0) = At(preHistory, 0)
        /\ Tail(agent.history) = LastMessages(preHistory, Len(agent.history) - 1)

\* The summarizer failed on a history of more than 11 messages.
C29_Witness ==
    /\ pc = "compacted"
    /\ compactPath = "fallback"
    /\ Len(preHistory) > 11
    /\ Len(agent.history) = 11

\* The quotient of n by 4, rounded down and rounded up.
Floor4(n) == (n - (n % 4)) \div 4
Ceil4(n) == Floor4(n) + (IF n % 4 = 0 THEN 0 ELSE 1)

RECURSIVE SumSeq(_)
SumSeq(ns) == IF ns = <<>> THEN 0 ELSE Head(ns) + SumSeq(Tail(ns))

AtLeast1(n) == IF n < 1 THEN 1 ELSE n

\* The history compactHistory has estimated.
Estimated == IF pc = "compacted" THEN {preHistory} ELSE {}

\* C30 as stated: the estimate of a message is max(1, ceil(len(content)/4) +
\* sum over its tool calls of ceil(len(name)/4) + ceil(len(json(args))/4)),
\* and the estimate of a history is the sum over its messages.
C30_EstimateRoundsUp ==
    \A h \in Estimated :
        /\ \A k \in 1..Len(h) :
              estimateTokens(h[k]) =
                  AtLeast1(Ceil4(h[k].content.len)
                           + SumSeq([j \in 1..Len(h[k].tool_calls) |->
                                       Ceil4(NameLen(h[k].tool_calls[j].name))
                                       + Ceil4(h[k].tool_calls[j].argsLen)]))
        /\ estimateHistoryTokens(h) = SumSeq([k \in 1..Len(h) |-> estimateTokens(h[k])])

\* C30: the estimate of a message is max(1, floor(len(content)/4) + sum over
\* its tool calls of floor(len(name)/4) + floor(len(json(args))/4)), each
\* quotient rounded down, and the estimate of a history is the sum over its
\* messages.
C30_EstimateRoundsDown ==
    \A h \in Estimated :
        /\ \A k \in 1..Len(h) :
              estimateTokens(h[k]) =
                  AtLeast1(Floor4(h[k].content.len)
                           + SumSeq([j \in 1..Len(h[k].tool_calls) |->
                                       Floor4(NameLen(h[k].tool_calls[j].name))
                                       + Floor4(h[k].tool_calls[j].argsLen)]))
        /\ estimateHistoryTokens(h) = SumSeq([k \in 1..Len(h) |-> estimateTokens(h[k])])

\* An estimated history holds a message with two tool calls, whose name
\* lengths are no multiple of 4, and a message estimated at the minimum.
C30_Witness ==
    /\ pc = "compacted"
    /\ \E k \in 1..Len(preHistory) :
          /\ Len(preHistory[k].tool_calls) = 2
          /\ NameLen(preHistory[k].tool_calls[1].name) % 4 # 0
    /\ preHistory[1].content.len < 4
    /\ preHistory[1].tool_calls = <<>>
    /\ estimateTokens(preHistory[1]) = 1

\* C31: every event of a turn is written only to the connection of the
\* handler that started the turn, and the agent of an ActiveSession on which
\* no turn runs holds no callback of an earlier turn.
C31_EventsToOwnSink ==
    /\ \A x \in Clients :
          \A k \in 1..Len(clients[x].conn) : clients[x].conn[k].by = x
    /\ \A i \in 1..Len(objs) : objs[i].mu = "free" => objs[i].agent.sink = "none"

\* C32: no frame is written to a WebSocket connection while another write
\* of a frame to it is under way, whether by the read loop, by the callbacks
\* of a WebSocket turn or by a turn of the REST endpoint.
C32_WritesSerialized == \A x \in Clients : ~clients[x].overlapped

\* A stored title that is not empty is not replaced by another.
C33_Step ==
    \A id \in SessionIDs :
        (sessRows[id].present /\ sessRows[id].title # 0 /\ sessRows'[id].present) =>
            sessRows'[id].title = sessRows[id].title

\* C33: the stored title of a session comes from its first user message:
\* once a title that is not empty has been stored, no later turn on any
\* connection or endpoint of the session overwrites it.
C33_TitleWrittenOnce == [][C33_Step]_vars

\* An ActiveSession on which no handler is between its Lock and its return
\* has its mutex free and no cancel handle.
C34_Released ==
    \A i \in 1..Len(objs) :
        (\A c \in Clients : ~(clients[c].pc = "turn" /\ clients[c].as = i)) =>
            /\ objs[i].mu = "free"
            /\ objs[i].cancel = "nil"

\* C34: every turn that has acquired the mutex of its session clears the
\* cancel handle and releases the mutex in the end, whatever its outcome, the
\* LLM and tool calls returning; a REST turn waiting for the mutex starts.
C34_TurnEndsAndReleases ==
    /\ []C34_Released
    /\ \A c \in Clients : (clients[c].pc = "turn") ~> (clients[c].pc # "turn")
    /\ (clients["rest"].pc = "open") ~> (clients["rest"].pc = "turn")

\* The REST turn ended with a failed save, and the WebSocket turn that had
\* to wait for the same ActiveSession runs.
C34_Witness ==
    /\ clients["rest"].pc = "done"
    /\ clients["rest"].sent = 1
    /\ clients["rest"].saveFailed
    /\ clients["ws"].pc = "turn"
    /\ clients["ws"].as = clients["rest"].as
    /\ objs[clients["ws"].as].mu = "ws"

\* C35: on shutdown the process does not close the store and exit before
\* every turn in flight, those of WebSocket connections included, has been
\* cancelled and has written its history snapshot.
C35_Step ==
    (srvPc # "down" /\ srvPc' = "down") =>
        \A c \in Clients : clients[c].pc # "turn"

C35_ShutdownWaitsForTurns == [][C35_Step]_vars

\* The tool call a tool message of the history answers: the call of its id in
\* the nearest assistant message before it.
RequestOf(h, k) ==
    LET j == CHOOSE j \in 1..(k - 1) :
                 /\ Len(h[j].tool_calls) > 0
                 /\ \A m \in (j + 1)..(k - 1) : Len(h[m].tool_calls) = 0
        n == CHOOSE n \in 1..Len(h[j].tool_calls) :
                 h[j].tool_calls[n].id = h[k].tool_call_id
    IN  h[j].tool_calls[n]

\* C36: under a tool allowlist a requested tool outside it is not executed,
\* also when the registry indexes it; the request is answered by an error
\* observation.
C36_OnlyAllowedToolsRun ==
    \A k \in 1..Len(agent.history) :
        (agent.history[k].role = RoleTool
            /\ RequestOf(agent.history, k).name \notin agent.tools) =>
                agent.history[k].content.kind = "error"

\* C37: when a DELETE of a session, by its id or by a unique prefix of it,
\* has succeeded, the session manager holds no ActiveSession for the session
\* and the cancel handle of every turn in flight on it has been invoked.
C37_Step ==
    (delPc = "messages_deleted" /\ delPc' = "done") =>
        /\ sm'[ServedSession] = 0
        /\ \A c \in Clients : clients'[c].pc = "turn" => clients'[c].cancelled

C37_DeleteEvictsAndCancels == [][C37_Step]_vars

C39_HandleIffInFlight ==
    \A i \in 1..Len(objs) :
        (objs[i].cancel # "nil") <=>
            (\E c \in Clients : clients[c].pc = "turn" /\ clients[c].as = i)

\* Remove and CloseAll read the handle as its last writer left it: the handle
\* of a turn in flight on an entry they delete is the one they invoke.
C39_Step ==
    (epoch' # epoch) =>
        \A id \in SessionIDs :
            (sm[id] # 0 /\ sm'[id] = 0 /\ objs[sm[id]].cancel \in Clients) =>
                clients'[objs[sm[id]].cancel].cancelled

\* C39: the reads and writes of an ActiveSession's cancel handle are ordered
\* by a common lock: Remove and CloseAll never read it while a turn installs
\* or clears it, and it is non-nil exactly while a turn is in flight.
C39_HandleUnderCommonLock == []C39_HandleIffInFlight /\ [][C39_Step]_vars

\* The system messages of a history: the prompt first, and besides it at
\* most one summary message, the second message of the history.
SystemMessagesOK(h) ==
    /\ Len(h) >= 1
    /\ h[1].role = RoleSystem
    /\ h[1].content.kind = "prompt"
    /\ \A k \in 2..Len(h) :
          h[k].role = RoleSystem => (k = 2 /\ h[k].content.kind = "summary")

\* C40: after turns and compactions, by summary or by the fallback trim, the
\* history holds the system prompt first and at most one summary message,
\* right after it; a compaction absorbs the summary of an earlier one.
C40_AtMostOneSummary == SystemMessagesOK(agent.history)

\* A history that began with a summary message was compacted by summary: the
\* old summary went into the new one.
C40_Witness ==
    /\ pc = "compacted"
    /\ compactPath = "summary"
    /\ Len(preHistory) >= 2
    /\ preHistory[2].content.kind = "summary"
    /\ agent.history[2].content.kind = "summary"
    /\ Len(agent.history) < Len(preHistory)

====
